---- MODULE Spec2Model ----
(***************************************************************************)
(* State-machine models of the demonstration programs of CPP_Basic.        *)
(* Every program is a standalone executable; each gets its own variables,  *)
(* initial state, actions and specification:                               *)
(*   SpecMutex / FairSpecMutex   src/mutex/mutex.cpp                       *)
(*   SpecThread                  src/thread/thread.cpp                     *)
(*   SpecFuture                  src/future/future.cpp                     *)
(*   SpecMemory                  src/memory/memory.cpp                     *)
(*   SpecAccess                  src/optional/optional.cpp and             *)
(*                               src/string_view/string_view.cpp           *)
(*   SpecSort                    src/algorithm/algorithm.cpp (Part 4)      *)
(*   SpecAccumulate              src/numeric/numeric.cpp (Part 1)          *)
(*   SpecCenterText              src/iomanip/iomanip.cpp (centerText)      *)
(*   SpecFstream                 src/fstream/fstream.cpp                   *)
(* A program counter names the source line of the next statement ("L66"),  *)
(* "none" is a thread that has not been created, "done" one whose function *)
(* has returned and "joined" one that main has joined.                     *)
(***************************************************************************)
EXTENDS Integers, Sequences, FiniteSets, TLC

VARIABLES
    \* ---- mutex.cpp
    mx_main,          \* program counter of main
    mx_thr,           \* program counter of every std::thread of mutex.cpp
    shared_counter,   \* int shared_counter (line 10)
    counter_mutex,    \* owner of std::mutex counter_mutex (line 12)
    loop_i,           \* the lambdas' loop variable i (lines 49, 62), per thread
    loaded,           \* value read by ++shared_counter (lines 50, 67), per thread
    m1, m2,           \* owners of std::mutex m1, m2 (line 93)
    lock_first,       \* std::lock's index of the mutex it blocks on, per thread
    protected_data,   \* ProtectedData: [data, writer, readers]
    reader_data,      \* reader_task's local std::string data (line 124)
    main_i,           \* main's loop variable i (lines 135, 140)
    flag,             \* std::once_flag flag (line 149)
    init_runs         \* how many times expensive_initialization was entered

mutexVars == <<mx_main, mx_thr, shared_counter, counter_mutex, loop_i, loaded,
               m1, m2, lock_first, protected_data, reader_data, main_i, flag,
               init_runs>>

VARIABLES
    \* ---- thread.cpp
    th_main,          \* program counter of main
    th_thr,           \* program counter of every thread of thread.cpp
    th_joinable,      \* std::thread::joinable() of every std::thread object
    num_threads,      \* auto num_threads (line 72)
    thread_pool,      \* std::vector<std::thread> thread_pool (line 76)
    pool_i,           \* loop variable i (line 77)
    pool_it,          \* position of the range-for over thread_pool (line 83)
    th_cout           \* lines written to std::cout, in order: <<text, value printed>>

threadVars == <<th_main, th_thr, th_joinable, num_threads, thread_pool, pool_i,
                pool_it, th_cout>>

VARIABLES
    \* ---- future.cpp
    fu_main,          \* program counter of main
    fu_thr,           \* program counter of every thread of future.cpp
    shared_state,     \* the shared state behind each future: status, value, launch
                      \* policy, deferred function started, times the task was
                      \* entered, times a result was stored
    valid,            \* std::future::valid() / std::shared_future::valid()
    has_state,        \* whether a std::promise object refers to a shared state
    fu_local,         \* int locals that receive a result (lines 43, 63, 88, 127, 146)
    in_flight,        \* the exception being thrown in a thread, or "none"
    inline_call,      \* the deferred task a caller is running inside wait()/get()
    fu_cout           \* lines written to std::cout, in order: <<text, value printed>>

futureVars == <<fu_main, fu_thr, shared_state, valid, has_state, fu_local,
                in_flight, inline_call, fu_cout>>

VARIABLES
    \* ---- memory.cpp
    me_main,          \* program counter of main
    unique_res,       \* std::unique_ptr<Resource> unique_res (line 46)
    shared_res1,      \* std::shared_ptr<Resource> shared_res1 (line 58)
    shared_res2,      \* std::shared_ptr<Resource> shared_res2 (line 61)
    strong_ptr,       \* std::shared_ptr<Resource> strong_ptr (line 75)
    weak_ptr,         \* std::weak_ptr<Resource> weak_ptr (line 76)
    locked_ptr,       \* the shared_ptr of the if conditions (lines 83, 93)
    use_count,        \* owners of each Resource (shared_ptr::use_count)
    weak_count,       \* weak_ptrs observing each Resource
    alive,            \* the Resource is constructed and not destroyed
    dtor_calls,       \* how many times ~Resource ran on each Resource
    raw_memory,       \* the ints at raw_memory (line 117); <<>> when not allocated
    me_i,             \* position of uninitialized_fill, then loop variable i (line 123)
    me_cout           \* lines written to std::cout, in order: <<text, value printed>>

memoryVars == <<me_main, unique_res, shared_res1, shared_res2, strong_ptr, weak_ptr,
                locked_ptr, use_count, weak_count, alive, dtor_calls, raw_memory,
                me_i, me_cout>>

VARIABLES
    \* ---- optional.cpp
    op_main,          \* program counter of main
    found_val,        \* std::optional<int> found_val (line 44)
    empty_opt,        \* std::optional<int> empty_opt (line 59)
    op_caught,        \* the exception a handler is handling, or "none"
    op_cout,          \* lines written to std::cout: <<text, value>>
    op_cerr           \* lines written to std::cerr: <<text, value>>

optionalVars == <<op_main, found_val, empty_opt, op_caught, op_cout, op_cerr>>

VARIABLES
    \* ---- string_view.cpp
    sv_main,          \* program counter of main
    access_view,      \* std::string_view access_view (line 44)
    modify_view,      \* std::string_view modify_view (line 72)
    other_view,       \* std::string_view other_view (line 84)
    sv_caught,        \* the exception a handler is handling, or "none"
    sv_cout,          \* lines written to std::cout: <<text, value>>
    sv_cerr           \* lines written to std::cerr: <<text, value>>

stringViewVars == <<sv_main, access_view, modify_view, other_view, sv_caught, sv_cout,
                    sv_cerr>>

VARIABLES
    \* ---- algorithm.cpp (Part 4)
    al_main,          \* program counter of main
    sortVec,          \* std::vector<int> sortVec (line 115)
    sort_input,       \* the elements sortVec was constructed with
    sort_i,           \* position of the insertion sort inside std::sort, from 1
    al_cout           \* lines written to std::cout: <<label, elements>>

algorithmVars == <<al_main, sortVec, sort_input, sort_i, al_cout>>

VARIABLES
    \* ---- numeric.cpp (Part 1)
    nu_main,          \* program counter of main
    myVec,            \* std::vector<int> myVec (line 21)
    nu_first,         \* accumulate's iterator first, as a position from 1
    nu_init,          \* accumulate's parameter init
    sum,              \* int sum (line 26)
    product,          \* int product (line 31)
    nu_cout           \* lines written to std::cout: <<text, value>>

numericVars == <<nu_main, myVec, nu_first, nu_init, sum, product, nu_cout>>

VARIABLES
    \* ---- iomanip.cpp (centerText)
    ct_pc,            \* position inside centerText; "call" before the call, "L57" at its end
    text,             \* centerText's parameter text
    width,            \* centerText's parameter width
    padding,          \* int padding (line 37)
    left_padding,     \* int left_padding (line 42)
    cout_fill,        \* std::cout.fill()
    ct_cout           \* characters written to std::cout by the call

iomanipVars == <<ct_pc, text, width, padding, left_padding, cout_fill, ct_cout>>

VARIABLES
    \* ---- fstream.cpp
    fs_main,          \* program counter: the line of the next statement
    files,            \* the files of the working directory: [exists, data]
    start_dir,        \* the directory as it was when the program started
    stream,           \* the stream object of the running example
    fs_closed,        \* files a stream of this run could write and has closed
    fs_cout,          \* lines written to std::cout: <<text, value>>
    fs_cerr           \* lines written to std::cerr: <<text, value>>

fstreamVars == <<fs_main, files, start_dir, stream, fs_closed, fs_cout, fs_cerr>>

vars == <<mutexVars, threadVars, futureVars, memoryVars, optionalVars, stringViewVars,
          algorithmVars, numericVars, iomanipVars, fstreamVars>>

\* Each program is its own process: what a step of one leaves alone.
otherThanMutex == <<threadVars, futureVars, memoryVars, optionalVars, stringViewVars,
                    algorithmVars, numericVars, iomanipVars, fstreamVars>>
otherThanThread == <<mutexVars, futureVars, memoryVars, optionalVars, stringViewVars,
                     algorithmVars, numericVars, iomanipVars, fstreamVars>>
otherThanFuture == <<mutexVars, threadVars, memoryVars, optionalVars, stringViewVars,
                     algorithmVars, numericVars, iomanipVars, fstreamVars>>
otherThanMemory == <<mutexVars, threadVars, futureVars, optionalVars, stringViewVars,
                     algorithmVars, numericVars, iomanipVars, fstreamVars>>
otherThanOptional == <<mutexVars, threadVars, futureVars, memoryVars, stringViewVars,
                       algorithmVars, numericVars, iomanipVars, fstreamVars>>
otherThanStringView == <<mutexVars, threadVars, futureVars, memoryVars, optionalVars,
                         algorithmVars, numericVars, iomanipVars, fstreamVars>>
otherThanAlgorithm == <<mutexVars, threadVars, futureVars, memoryVars, optionalVars,
                        stringViewVars, numericVars, iomanipVars, fstreamVars>>
otherThanNumeric == <<mutexVars, threadVars, futureVars, memoryVars, optionalVars,
                      stringViewVars, algorithmVars, iomanipVars, fstreamVars>>
otherThanIomanip == <<mutexVars, threadVars, futureVars, memoryVars, optionalVars,
                      stringViewVars, algorithmVars, numericVars, fstreamVars>>
otherThanFstream == <<mutexVars, threadVars, futureVars, memoryVars, optionalVars,
                      stringViewVars, algorithmVars, numericVars, iomanipVars>>

----------------------------------------------------------------------------
(* Bounds *)

\* Iterations of the increment loops; the program runs 1000 (lines 49, 62).
LoopCount == 2

\* Reader threads of Part 4; the program starts 5 (mutex.cpp lines 134-137).
NumReaders == 2

\* Largest value std::thread::hardware_concurrency() returns (thread.cpp line 72).
MaxHardwareConcurrency == 2

\* Largest value an uninitialized int of the raw buffer holds (memory.cpp line 117).
MaxGarbage == 1

\* Longest vector, besides the program's own, that std::sort is applied to
\* (algorithm.cpp line 119), and its largest element.
MaxSortLen == 3
MaxSortElem == 1

\* Longest vector, besides the program's own, that std::accumulate is applied to
\* (numeric.cpp lines 26, 31), and its largest element.
MaxAccLen == 3
MaxAccElem == 2

\* Longest text, besides the program's own, and largest width in absolute value that
\* centerText is called with (iomanip.cpp line 28).
MaxTextLen == 3
MaxWidth == 5

\* Most lines input.txt holds when the program starts (fstream.cpp line 22).
MaxInputLines == 2

----------------------------------------------------------------------------
(* Program constants *)

\* const int count = 5 (memory.cpp line 115).
BufferCount == 5

----------------------------------------------------------------------------
(* mutex.cpp *)

RaceThreads == {"t_race1", "t_race2"}
SafeThreads == {"t_safe1", "t_safe2"}
ScopedThreads == {"t_safe_lock", "t_safe_lock2"}
\* readers[k]
ReaderName(k) == <<"readers0", "readers1", "readers2", "readers3", "readers4">>[k + 1]
Readers == {ReaderName(k) : k \in 0..(NumReaders - 1)}
OnceThreads == {"t_once1", "t_once2"}
MxThreads == RaceThreads \cup SafeThreads \cup ScopedThreads \cup Readers
             \cup {"writer"} \cup OnceThreads

Free == "free"

MxInit ==
    /\ mx_main = "L45"
    /\ mx_thr = [t \in MxThreads |-> "none"]
    /\ shared_counter = 0
    /\ counter_mutex = Free
    /\ loop_i = [t \in RaceThreads \cup SafeThreads |-> 0]
    /\ loaded = [t \in RaceThreads \cup SafeThreads |-> 0]
    /\ m1 = Free
    /\ m2 = Free
    /\ lock_first = [t \in ScopedThreads |-> 0]
    /\ protected_data = [data |-> "initial data", writer |-> Free, readers |-> {}]
    /\ reader_data = [t \in Readers |-> ""]
    /\ main_i = 0
    /\ flag = [state |-> "init", runner |-> Free]
    /\ init_runs = 0

\* std::thread t(f) at main's line `at`: the new thread starts at the first line
\* of f. <<at, thread, entry, next line of main>>
MxSpawnTable ==
    { <<"L54", "t_race1", "L49", "L55">>, <<"L55", "t_race2", "L49", "L56">>,
      <<"L71", "t_safe1", "L62", "L72">>, <<"L72", "t_safe2", "L62", "L73">>,
      <<"L112", "t_safe_lock", "L106", "L113">>,
      <<"L113", "t_safe_lock2", "L106", "L114">>,
      <<"L138", "writer", "L31", "L140">>,
      <<"L158", "t_once1", "L153", "L159">>, <<"L159", "t_once2", "L153", "L160">> }

\* t.join() at main's line `at`. <<at, thread, next line of main>>
MxJoinTable ==
    { <<"L56", "t_race1", "L57">>, <<"L57", "t_race2", "L58">>,
      <<"L73", "t_safe1", "L74">>, <<"L74", "t_safe2", "L75">>,
      <<"L114", "t_safe_lock", "L115">>, <<"L115", "t_safe_lock2", "L116">>,
      <<"L143", "writer", "L144">>,
      <<"L160", "t_once1", "L161">>, <<"L161", "t_once2", "L163">> }

\* std::thread::join() returns once the thread's function has returned.
MxCanJoin(t) == mx_thr[t] = "done"

MxMainSpawn ==
    /\ \E e \in MxSpawnTable :
          /\ mx_main = e[1]
          /\ mx_thr' = [mx_thr EXCEPT ![e[2]] = e[3]]
          /\ mx_main' = e[4]
    /\ UNCHANGED <<shared_counter, counter_mutex, loop_i, loaded, m1, m2,
                   lock_first, protected_data, reader_data, main_i, flag,
                   init_runs>>
    /\ UNCHANGED otherThanMutex

MxMainJoin ==
    /\ \E e \in MxJoinTable :
          /\ mx_main = e[1]
          /\ MxCanJoin(e[2])
          /\ mx_thr' = [mx_thr EXCEPT ![e[2]] = "joined"]
          /\ mx_main' = e[3]
    /\ UNCHANGED <<shared_counter, counter_mutex, loop_i, loaded, m1, m2,
                   lock_first, protected_data, reader_data, main_i, flag,
                   init_runs>>
    /\ UNCHANGED otherThanMutex

\* ---- Part 1, without a lock (lines 45-58)

MxMainRaceSetup ==
    /\ mx_main = "L45"
    /\ shared_counter' = 0
    /\ mx_main' = "L54"
    /\ UNCHANGED <<mx_thr, counter_mutex, loop_i, loaded, m1, m2, lock_first,
                   protected_data, reader_data, main_i, flag, init_runs>>
    /\ UNCHANGED otherThanMutex

\* ++shared_counter without a lock is a read followed by a write (line 50).
RaceLoad(t) ==
    /\ mx_thr[t] = "L49"
    /\ loop_i[t] < LoopCount
    /\ loaded' = [loaded EXCEPT ![t] = shared_counter]
    /\ mx_thr' = [mx_thr EXCEPT ![t] = "L50"]
    /\ UNCHANGED <<mx_main, shared_counter, counter_mutex, loop_i, m1, m2,
                   lock_first, protected_data, reader_data, main_i, flag,
                   init_runs>>
    /\ UNCHANGED otherThanMutex

RaceStore(t) ==
    /\ mx_thr[t] = "L50"
    /\ shared_counter' = loaded[t] + 1
    /\ loop_i' = [loop_i EXCEPT ![t] = @ + 1]
    /\ mx_thr' = [mx_thr EXCEPT ![t] = "L49"]
    /\ UNCHANGED <<mx_main, counter_mutex, loaded, m1, m2, lock_first,
                   protected_data, reader_data, main_i, flag, init_runs>>
    /\ UNCHANGED otherThanMutex

RaceExit(t) ==
    /\ mx_thr[t] = "L49"
    /\ loop_i[t] >= LoopCount
    /\ mx_thr' = [mx_thr EXCEPT ![t] = "done"]
    /\ UNCHANGED <<mx_main, shared_counter, counter_mutex, loop_i, loaded, m1,
                   m2, lock_first, protected_data, reader_data, main_i, flag,
                   init_runs>>
    /\ UNCHANGED otherThanMutex

\* ---- Part 1, with std::lock_guard (lines 58-75)

MxMainSafeSetup ==
    /\ mx_main = "L58"
    /\ shared_counter' = 0
    /\ mx_main' = "L71"
    /\ UNCHANGED <<mx_thr, counter_mutex, loop_i, loaded, m1, m2, lock_first,
                   protected_data, reader_data, main_i, flag, init_runs>>
    /\ UNCHANGED otherThanMutex

\* A lock() that never waits for the owner to unlock.
MutexNeverBlocks(owner) == TRUE

\* std::mutex::lock() blocks until the mutex is free, then owns it.
MutexFree(owner) == owner = Free

\* std::lock_guard<std::mutex> lock(counter_mutex) (line 66), entered while i < 1000.
LockGuardAcquire(t) ==
    /\ mx_thr[t] = "L62"
    /\ loop_i[t] < LoopCount
    /\ MutexFree(counter_mutex)
    /\ counter_mutex' = t
    /\ mx_thr' = [mx_thr EXCEPT ![t] = "L67"]
    /\ UNCHANGED <<mx_main, shared_counter, loop_i, loaded, m1, m2,
                   lock_first, protected_data, reader_data, main_i, flag,
                   init_runs>>
    /\ UNCHANGED otherThanMutex

\* ++shared_counter under the lock (line 67): a read followed by a write, as in
\* line 50.
LockedIncrement(t) ==
    /\ \/ /\ mx_thr[t] = "L67"
          /\ loaded' = [loaded EXCEPT ![t] = shared_counter]
          /\ mx_thr' = [mx_thr EXCEPT ![t] = "L67_store"]
          /\ UNCHANGED shared_counter
       \/ /\ mx_thr[t] = "L67_store"
          /\ shared_counter' = loaded[t] + 1
          /\ loaded' = [loaded EXCEPT ![t] = 0]
          /\ mx_thr' = [mx_thr EXCEPT ![t] = "L68"]
    /\ UNCHANGED <<mx_main, counter_mutex, loop_i, m1, m2, lock_first,
                   protected_data, reader_data, main_i, flag, init_runs>>
    /\ UNCHANGED otherThanMutex

\* End of the loop body (line 68): ~lock_guard unlocks, then ++i.
LockGuardRelease(t) ==
    /\ mx_thr[t] = "L68"
    /\ counter_mutex' = Free
    /\ loop_i' = [loop_i EXCEPT ![t] = @ + 1]
    /\ mx_thr' = [mx_thr EXCEPT ![t] = "L62"]
    /\ UNCHANGED <<mx_main, shared_counter, loaded, m1, m2, lock_first,
                   protected_data, reader_data, main_i, flag, init_runs>>
    /\ UNCHANGED otherThanMutex

SafeExit(t) ==
    /\ mx_thr[t] = "L62"
    /\ loop_i[t] >= LoopCount
    /\ mx_thr' = [mx_thr EXCEPT ![t] = "done"]
    /\ UNCHANGED <<mx_main, shared_counter, counter_mutex, loop_i, loaded, m1,
                   m2, lock_first, protected_data, reader_data, main_i, flag,
                   init_runs>>
    /\ UNCHANGED otherThanMutex

\* ---- Part 2, std::unique_lock with std::defer_lock (lines 75-88)

MxMainPrintSafe ==
    /\ mx_main = "L75"
    /\ mx_main' = "L85"
    /\ UNCHANGED <<mx_thr, shared_counter, counter_mutex, loop_i, loaded, m1,
                   m2, lock_first, protected_data, reader_data, main_i, flag, init_runs>>
    /\ UNCHANGED otherThanMutex

MxMainUniqueLock ==
    /\ mx_main = "L85"
    /\ MutexFree(counter_mutex)
    /\ counter_mutex' = "main"
    /\ mx_main' = "L87"
    /\ UNCHANGED <<mx_thr, shared_counter, loop_i, loaded, m1, m2, lock_first,
                   protected_data, reader_data, main_i, flag, init_runs>>
    /\ UNCHANGED otherThanMutex

MxMainUniqueUnlock ==
    /\ mx_main = "L87"
    /\ counter_mutex' = Free
    /\ mx_main' = "L112"
    /\ UNCHANGED <<mx_thr, shared_counter, loop_i, loaded, m1, m2, lock_first,
                   protected_data, reader_data, main_i, flag, init_runs>>
    /\ UNCHANGED otherThanMutex

\* ---- Part 3, std::scoped_lock lock(m1, m2) (lines 91-116)
\* The constructor calls std::lock(m1, m2): lock the mutex at index __first, try_lock
\* the other one; when that fails unlock, make the other one __first and start over.

MutexAt(k) == IF k = 0 THEN m1 ELSE m2

SetMutexAt(k, owner) ==
    IF k = 0 THEN m1' = owner /\ m2' = m2 ELSE m2' = owner /\ m1' = m1

\* __locks[__first].lock()
StdLockFirst(t) ==
    /\ mx_thr[t] = "L106"
    /\ MutexFree(MutexAt(lock_first[t]))
    /\ SetMutexAt(lock_first[t], t)
    /\ mx_thr' = [mx_thr EXCEPT ![t] = "L106_try"]
    /\ UNCHANGED <<mx_main, shared_counter, counter_mutex, loop_i, loaded,
                   lock_first, protected_data, reader_data, main_i, flag,
                   init_runs>>
    /\ UNCHANGED otherThanMutex

\* __locks[__idx].try_lock(): never blocks.
StdLockTry(t) ==
    /\ mx_thr[t] = "L106_try"
    /\ LET other == 1 - lock_first[t] IN
         IF MutexFree(MutexAt(other))
         THEN /\ SetMutexAt(other, t)
              /\ mx_thr' = [mx_thr EXCEPT ![t] = "L107"]
         ELSE /\ UNCHANGED <<m1, m2>>
              /\ mx_thr' = [mx_thr EXCEPT ![t] = "L106_back"]
    /\ UNCHANGED <<mx_main, shared_counter, counter_mutex, loop_i, loaded,
                   lock_first, protected_data, reader_data, main_i, flag,
                   init_runs>>
    /\ UNCHANGED otherThanMutex

\* A back-off that forgets to unlock the mutex it holds.
StdLockBackOffKeepsLock(t) ==
    /\ mx_thr[t] = "L106_back"
    /\ lock_first' = [lock_first EXCEPT ![t] = 1 - @]
    /\ mx_thr' = [mx_thr EXCEPT ![t] = "L106"]
    /\ UNCHANGED <<mx_main, shared_counter, counter_mutex, loop_i, loaded, m1, m2,
                   protected_data, reader_data, main_i, flag, init_runs>>
    /\ UNCHANGED otherThanMutex

\* try_lock failed: unlock what is held, __first = __idx, loop.
StdLockBackOff(t) ==
    /\ mx_thr[t] = "L106_back"
    /\ SetMutexAt(lock_first[t], Free)
    /\ lock_first' = [lock_first EXCEPT ![t] = 1 - @]
    /\ mx_thr' = [mx_thr EXCEPT ![t] = "L106"]
    /\ UNCHANGED <<mx_main, shared_counter, counter_mutex, loop_i, loaded,
                   protected_data, reader_data, main_i, flag, init_runs>>
    /\ UNCHANGED otherThanMutex

ScopedPrint(t) ==
    /\ mx_thr[t] = "L107"
    /\ mx_thr' = [mx_thr EXCEPT ![t] = "L108"]
    /\ UNCHANGED <<mx_main, shared_counter, counter_mutex, loop_i, loaded, m1,
                   m2, lock_first, protected_data, reader_data, main_i, flag, init_runs>>
    /\ UNCHANGED otherThanMutex

\* ~scoped_lock (line 108): m1.unlock(), then m2.unlock().
ScopedUnlock(t) ==
    /\ \/ /\ mx_thr[t] = "L108"
          /\ SetMutexAt(0, Free)
          /\ mx_thr' = [mx_thr EXCEPT ![t] = "L108_m2"]
          /\ UNCHANGED lock_first
       \/ /\ mx_thr[t] = "L108_m2"
          /\ SetMutexAt(1, Free)
          /\ lock_first' = [lock_first EXCEPT ![t] = 0]
          /\ mx_thr' = [mx_thr EXCEPT ![t] = "done"]
    /\ UNCHANGED <<mx_main, shared_counter, counter_mutex, loop_i, loaded,
                   protected_data, reader_data, main_i, flag, init_runs>>
    /\ UNCHANGED otherThanMutex

\* ---- Part 4, std::shared_mutex (lines 116-144)

MxMainPart4Setup ==
    /\ mx_main = "L116"
    /\ main_i' = 0
    /\ mx_main' = "L135"
    /\ UNCHANGED <<mx_thr, shared_counter, counter_mutex, loop_i, loaded, m1,
                   m2, lock_first, protected_data, reader_data, flag, init_runs>>
    /\ UNCHANGED otherThanMutex

\* for (i = 0; i < 5; ++i) readers[i] = std::thread(reader_task)
MxMainReaderSpawn ==
    /\ mx_main = "L135"
    /\ IF main_i < NumReaders
       THEN /\ mx_thr' = [mx_thr EXCEPT ![ReaderName(main_i)] = "L24"]
            /\ main_i' = main_i + 1
            /\ mx_main' = mx_main
       ELSE /\ mx_main' = "L138"
            /\ UNCHANGED <<mx_thr, main_i>>
    /\ UNCHANGED <<shared_counter, counter_mutex, loop_i, loaded, m1, m2,
                   lock_first, protected_data, reader_data, flag, init_runs>>
    /\ UNCHANGED otherThanMutex

\* for (i = 0; i < 5; ++i) readers[i].join()
MxMainReaderJoin ==
    /\ \/ /\ mx_main = "L140"
          /\ main_i' = 0
          /\ mx_main' = "L141"
          /\ UNCHANGED mx_thr
       \/ /\ mx_main = "L141"
          /\ main_i < NumReaders
          /\ MxCanJoin(ReaderName(main_i))
          /\ mx_thr' = [mx_thr EXCEPT ![ReaderName(main_i)] = "joined"]
          /\ main_i' = main_i + 1
          /\ UNCHANGED mx_main
    /\ UNCHANGED <<shared_counter, counter_mutex, loop_i, loaded, m1,
                   m2, lock_first, protected_data, reader_data, flag, init_runs>>
    /\ UNCHANGED otherThanMutex

MxMainReaderJoinExit ==
    /\ mx_main = "L141"
    /\ main_i >= NumReaders
    /\ mx_main' = "L143"
    /\ UNCHANGED <<mx_thr, shared_counter, counter_mutex, loop_i, loaded, m1,
                   m2, lock_first, protected_data, reader_data, main_i, flag,
                   init_runs>>
    /\ UNCHANGED otherThanMutex

\* std::shared_lock lock(mtx) (line 24): blocks while a writer owns mtx.
SharedLockable == protected_data.writer = Free

\* An exclusive lock that waits for writers only.
ExclusiveIgnoresReaders == protected_data.writer = Free

\* std::unique_lock lock(mtx) (line 31): blocks while anyone owns mtx.
ExclusiveLockable == protected_data.writer = Free /\ protected_data.readers = {}

ReadLock(t) ==
    /\ mx_thr[t] = "L24"
    /\ SharedLockable
    /\ protected_data' = [protected_data EXCEPT !.readers = @ \cup {t}]
    /\ mx_thr' = [mx_thr EXCEPT ![t] = "L26"]
    /\ UNCHANGED <<mx_main, shared_counter, counter_mutex, loop_i, loaded, m1,
                   m2, lock_first, reader_data, main_i, flag, init_runs>>
    /\ UNCHANGED otherThanMutex

\* return data (line 26): the copy is made, then ~shared_lock unlocks.
ReadReturn(t) ==
    /\ mx_thr[t] = "L26"
    /\ reader_data' = [reader_data EXCEPT ![t] = protected_data.data]
    /\ protected_data' = [protected_data EXCEPT !.readers = @ \ {t}]
    /\ mx_thr' = [mx_thr EXCEPT ![t] = "L125"]
    /\ UNCHANGED <<mx_main, shared_counter, counter_mutex, loop_i, loaded, m1,
                   m2, lock_first, main_i, flag, init_runs>>
    /\ UNCHANGED otherThanMutex

ReaderPrint(t) ==
    /\ mx_thr[t] = "L125"
    /\ mx_thr' = [mx_thr EXCEPT ![t] = "done"]
    /\ UNCHANGED <<mx_main, shared_counter, counter_mutex, loop_i, loaded, m1,
                   m2, lock_first, protected_data, reader_data, main_i, flag, init_runs>>
    /\ UNCHANGED otherThanMutex

WriteLock ==
    /\ mx_thr["writer"] = "L31"
    /\ ExclusiveLockable
    /\ protected_data' = [protected_data EXCEPT !.writer = "writer"]
    /\ mx_thr' = [mx_thr EXCEPT !["writer"] = "L33"]
    /\ UNCHANGED <<mx_main, shared_counter, counter_mutex, loop_i, loaded, m1,
                   m2, lock_first, reader_data, main_i, flag, init_runs>>
    /\ UNCHANGED otherThanMutex

WriteAssign ==
    /\ mx_thr["writer"] = "L33"
    /\ protected_data' = [protected_data EXCEPT !.data = "new updated data"]
    /\ mx_thr' = [mx_thr EXCEPT !["writer"] = "L34"]
    /\ UNCHANGED <<mx_main, shared_counter, counter_mutex, loop_i, loaded, m1,
                   m2, lock_first, reader_data, main_i, flag, init_runs>>
    /\ UNCHANGED otherThanMutex

WriteUnlock ==
    /\ mx_thr["writer"] = "L34"
    /\ protected_data' = [protected_data EXCEPT !.writer = Free]
    /\ mx_thr' = [mx_thr EXCEPT !["writer"] = "L130"]
    /\ UNCHANGED <<mx_main, shared_counter, counter_mutex, loop_i, loaded, m1,
                   m2, lock_first, reader_data, main_i, flag, init_runs>>
    /\ UNCHANGED otherThanMutex

WriterPrint ==
    /\ mx_thr["writer"] = "L130"
    /\ mx_thr' = [mx_thr EXCEPT !["writer"] = "done"]
    /\ UNCHANGED <<mx_main, shared_counter, counter_mutex, loop_i, loaded, m1,
                   m2, lock_first, protected_data, reader_data, main_i, flag, init_runs>>
    /\ UNCHANGED otherThanMutex

\* ---- Part 5, std::call_once (lines 144-163)

MxMainPart5Setup ==
    /\ mx_main = "L144"
    /\ mx_main' = "L158"
    /\ UNCHANGED <<mx_thr, shared_counter, counter_mutex, loop_i, loaded, m1,
                   m2, lock_first, protected_data, reader_data, main_i, flag, init_runs>>
    /\ UNCHANGED otherThanMutex

MxMainReturn ==
    /\ mx_main = "L163"
    /\ mx_main' = "returned"
    /\ UNCHANGED <<mx_thr, shared_counter, counter_mutex, loop_i, loaded, m1,
                   m2, lock_first, protected_data, reader_data, main_i, flag,
                   init_runs>>
    /\ UNCHANGED otherThanMutex

\* std::call_once(flag, f): the first caller runs f; a caller that finds f running
\* blocks until it has returned; a caller that finds the flag set returns at once.
\* A call_once that tests the flag only for "set", so a second caller starts f while
\* the first is still running it.
OnceMayRunRacy == flag.state # "done"

OnceMayRun == flag.state = "init"
OnceIsSet == flag.state = "done"

CallOnceActive(t) ==
    /\ mx_thr[t] = "L153"
    /\ OnceMayRun
    /\ flag' = [state |-> "running", runner |-> t]
    /\ mx_thr' = [mx_thr EXCEPT ![t] = "L39"]
    /\ UNCHANGED <<mx_main, shared_counter, counter_mutex, loop_i, loaded, m1,
                   m2, lock_first, protected_data, reader_data, main_i,
                   init_runs>>
    /\ UNCHANGED otherThanMutex

ExpensiveInitialization(t) ==
    /\ \/ /\ mx_thr[t] = "L39"
          /\ init_runs' = init_runs + 1
          /\ mx_thr' = [mx_thr EXCEPT ![t] = "L41"]
       \/ /\ mx_thr[t] = "L41"
          /\ UNCHANGED init_runs
          /\ mx_thr' = [mx_thr EXCEPT ![t] = "L42"]
    /\ UNCHANGED <<mx_main, shared_counter, counter_mutex, loop_i, loaded, m1,
                   m2, lock_first, protected_data, reader_data, main_i, flag>>
    /\ UNCHANGED otherThanMutex

\* f has returned: the flag is set and the waiting callers are released.
CallOnceReturn(t) ==
    /\ mx_thr[t] = "L42"
    /\ flag' = [state |-> "done", runner |-> Free]
    /\ mx_thr' = [mx_thr EXCEPT ![t] = "L154"]
    /\ UNCHANGED <<mx_main, shared_counter, counter_mutex, loop_i, loaded, m1,
                   m2, lock_first, protected_data, reader_data, main_i,
                   init_runs>>
    /\ UNCHANGED otherThanMutex

CallOncePassive(t) ==
    /\ mx_thr[t] = "L153"
    /\ OnceIsSet
    /\ mx_thr' = [mx_thr EXCEPT ![t] = "L154"]
    /\ UNCHANGED <<mx_main, shared_counter, counter_mutex, loop_i, loaded, m1,
                   m2, lock_first, protected_data, reader_data, main_i, flag,
                   init_runs>>
    /\ UNCHANGED otherThanMutex

OncePrint(t) ==
    /\ mx_thr[t] = "L154"
    /\ mx_thr' = [mx_thr EXCEPT ![t] = "done"]
    /\ UNCHANGED <<mx_main, shared_counter, counter_mutex, loop_i, loaded, m1,
                   m2, lock_first, protected_data, reader_data, main_i, flag, init_runs>>
    /\ UNCHANGED otherThanMutex

MxMain ==
    \/ MxMainSpawn
    \/ MxMainJoin
    \/ MxMainRaceSetup
    \/ MxMainSafeSetup
    \/ MxMainPrintSafe
    \/ MxMainUniqueLock
    \/ MxMainUniqueUnlock
    \/ MxMainPart4Setup
    \/ MxMainReaderSpawn
    \/ MxMainReaderJoin
    \/ MxMainReaderJoinExit
    \/ MxMainPart5Setup
    \/ MxMainReturn

MxThread ==
    \/ \E t \in RaceThreads : RaceLoad(t) \/ RaceStore(t) \/ RaceExit(t)
    \/ \E t \in SafeThreads :
          LockGuardAcquire(t) \/ LockedIncrement(t) \/ LockGuardRelease(t) \/ SafeExit(t)
    \/ \E t \in ScopedThreads :
          \/ StdLockFirst(t) \/ StdLockTry(t) \/ StdLockBackOff(t)
          \/ ScopedPrint(t) \/ ScopedUnlock(t)
    \/ \E t \in Readers : ReadLock(t) \/ ReadReturn(t) \/ ReaderPrint(t)
    \/ WriteLock \/ WriteAssign \/ WriteUnlock \/ WriterPrint
    \/ \E t \in OnceThreads :
          \/ CallOnceActive(t) \/ ExpensiveInitialization(t) \/ CallOnceReturn(t)
          \/ CallOncePassive(t) \/ OncePrint(t)

MxNext == MxMain \/ MxThread

----------------------------------------------------------------------------
(* thread.cpp *)

\* thread_pool[k], the k-th std::thread emplaced at line 79.
PoolName(k) == <<"pool0", "pool1", "pool2", "pool3", "pool4", "pool5">>[k + 1]
PoolThreads == {PoolName(k) : k \in 0..MaxHardwareConcurrency}
Workers == {"t1"} \cup PoolThreads
ThThreads == Workers \cup {"t2"}

\* The argument id of worker_function: 101 for t1 (line 32), i for the pool (line 79).
WorkerId(t) ==
    IF t = "t1" THEN 101 ELSE CHOOSE k \in 0..MaxHardwareConcurrency : PoolName(k) = t

ThInit ==
    /\ th_main = "L27"
    /\ th_thr = [t \in ThThreads |-> "none"]
    /\ th_joinable = [t \in ThThreads |-> FALSE]
    /\ num_threads = 0
    /\ thread_pool = <<>>
    /\ pool_i = 0
    /\ pool_it = 0
    /\ th_cout = <<>>

\* Statements of main that only write a line. <<at, line, next statement>>
\* The sleep_for of line 64 changes no state: line 61 continues at line 65.
ThPrintTable ==
    { <<"L27", "--- Part 1", "L32">>,
      <<"L35", "Main thread ID", "L36">>,
      <<"L36", "Worker thread t1 ID", "L39">>,
      <<"L43", "Waiting for worker thread t1 to finish...", "L44">>,
      <<"L45", "Worker thread t1 has been joined", "L48">>,
      <<"L51", "--- Part 2", "L56">>,
      <<"L57", "Detaching thread t2...", "L58">>,
      <<"L61", "Main thread is not waiting for t2", "L65">>,
      <<"L65", "Main thread exiting", "L68">>,
      <<"L68", "--- Part 3", "L72">>,
      <<"L75", "Using this to launch a pool of threads", "L77">>,
      <<"L88", "All threads in the pool have been joined", "L90">> }

ThMainPrint ==
    /\ \E e \in ThPrintTable :
          /\ th_main = e[1]
          /\ th_cout' = Append(th_cout, <<e[2], "">>)
          /\ th_main' = e[3]
    /\ UNCHANGED <<th_thr, th_joinable, num_threads, thread_pool, pool_i, pool_it>>
    /\ UNCHANGED otherThanThread

\* std::cout << ... << t.joinable() (lines 39, 48, 60). <<at, text, thread, next>>
ThJoinableTable ==
    { <<"L39", "Is t1 joinable?", "t1", "L43">>,
      <<"L48", "Is t1 joinable after join?", "t1", "L51">>,
      <<"L60", "Is t2 joinable after detach?", "t2", "L61">> }

ThMainPrintJoinable ==
    /\ \E e \in ThJoinableTable :
          /\ th_main = e[1]
          /\ th_cout' = Append(th_cout, <<e[2], th_joinable[e[3]]>>)
          /\ th_main' = e[4]
    /\ UNCHANGED <<th_thr, th_joinable, num_threads, thread_pool, pool_i, pool_it>>
    /\ UNCHANGED otherThanThread

\* std::thread t1(worker_function, 101) (line 32), std::thread t2(detached_worker)
\* (line 56): the thread starts and the object is joinable.
ThMainSpawn ==
    /\ \/ /\ th_main = "L32"
          /\ th_thr' = [th_thr EXCEPT !["t1"] = "L12"]
          /\ th_joinable' = [th_joinable EXCEPT !["t1"] = TRUE]
          /\ th_main' = "L35"
       \/ /\ th_main = "L56"
          /\ th_thr' = [th_thr EXCEPT !["t2"] = "L21"]
          /\ th_joinable' = [th_joinable EXCEPT !["t2"] = TRUE]
          /\ th_main' = "L57"
    /\ UNCHANGED <<num_threads, thread_pool, pool_i, pool_it, th_cout>>
    /\ UNCHANGED otherThanThread

\* A join() that returns without waiting for the thread.
ThJoinDoesNotWait(t) == TRUE

\* std::thread::join() returns once the thread's function has returned.
ThCanJoin(t) == th_thr[t] = "done"

\* t1.join() (line 44).
ThMainJoin ==
    /\ th_main = "L44"
    /\ ThCanJoin("t1")
    /\ th_thr' = [th_thr EXCEPT !["t1"] = "joined"]
    /\ th_joinable' = [th_joinable EXCEPT !["t1"] = FALSE]
    /\ th_main' = "L45"
    /\ UNCHANGED <<num_threads, thread_pool, pool_i, pool_it, th_cout>>
    /\ UNCHANGED otherThanThread

\* t2.detach() (line 58).
ThMainDetach ==
    /\ th_main = "L58"
    /\ th_joinable' = [th_joinable EXCEPT !["t2"] = FALSE]
    /\ th_main' = "L60"
    /\ UNCHANGED <<th_thr, num_threads, thread_pool, pool_i, pool_it, th_cout>>
    /\ UNCHANGED otherThanThread

\* auto num_threads = std::thread::hardware_concurrency(), printed (lines 72-73).
\* The value is the platform's: any unsigned, 0 when it cannot be computed.
ThMainHardwareConcurrency ==
    /\ th_main = "L72"
    /\ \E n \in 0..MaxHardwareConcurrency :
          /\ num_threads' = n
          /\ th_cout' = Append(th_cout, <<"Hardware concurrency is", n>>)
    /\ th_main' = "L75"
    /\ UNCHANGED <<th_thr, th_joinable, thread_pool, pool_i, pool_it>>
    /\ UNCHANGED otherThanThread

\* for (unsigned i = 0; i < num_threads; ++i)
\*     thread_pool.emplace_back(worker_function, i)        (lines 77-80)
ThMainPoolEmplace ==
    /\ th_main = "L77"
    /\ IF pool_i < num_threads
       THEN /\ thread_pool' = Append(thread_pool, PoolName(pool_i))
            /\ th_thr' = [th_thr EXCEPT ![PoolName(pool_i)] = "L12"]
            /\ th_joinable' = [th_joinable EXCEPT ![PoolName(pool_i)] = TRUE]
            /\ pool_i' = pool_i + 1
            /\ UNCHANGED th_main
       ELSE /\ th_main' = "L83"
            /\ UNCHANGED <<thread_pool, th_thr, th_joinable, pool_i>>
    /\ UNCHANGED <<num_threads, pool_it, th_cout>>
    /\ UNCHANGED otherThanThread

\* A join loop that stops one element early.
PoolJoinSkipsLast == pool_it + 1 < Len(thread_pool)

\* The range-for of line 83 has not reached thread_pool.end().
PoolJoinPending == pool_it < Len(thread_pool)

\* for (auto& t : thread_pool) if (t.joinable()) t.join()     (lines 83-87)
ThMainPoolJoin ==
    /\ th_main = "L83"
    /\ IF PoolJoinPending
       THEN LET t == thread_pool[pool_it + 1] IN
            /\ IF th_joinable[t]
               THEN /\ ThCanJoin(t)
                    /\ th_thr' = [th_thr EXCEPT ![t] = "joined"]
                    /\ th_joinable' = [th_joinable EXCEPT ![t] = FALSE]
               ELSE UNCHANGED <<th_thr, th_joinable>>
            /\ pool_it' = pool_it + 1
            /\ UNCHANGED th_main
       ELSE /\ th_main' = "L88"
            /\ UNCHANGED <<th_thr, th_joinable, pool_it>>
    /\ UNCHANGED <<num_threads, thread_pool, pool_i, th_cout>>
    /\ UNCHANGED otherThanThread

\* return 0 (line 90): the process exits, whatever the detached thread is doing.
ThMainReturn ==
    /\ th_main = "L90"
    /\ th_main' = "returned"
    /\ UNCHANGED <<th_thr, th_joinable, num_threads, thread_pool, pool_i, pool_it,
                   th_cout>>
    /\ UNCHANGED otherThanThread

ThRunning == th_main # "returned"

\* worker_function(id) (lines 11-17); the sleep_for of line 15 changes no state.
WorkerStarted(t) ==
    /\ ThRunning
    /\ th_thr[t] = "L12"
    /\ th_cout' = Append(th_cout, <<"Worker thread started", WorkerId(t)>>)
    /\ th_thr' = [th_thr EXCEPT ![t] = "L16"]
    /\ UNCHANGED <<th_main, th_joinable, num_threads, thread_pool, pool_i, pool_it>>
    /\ UNCHANGED otherThanThread

WorkerFinished(t) ==
    /\ ThRunning
    /\ th_thr[t] = "L16"
    /\ th_cout' = Append(th_cout, <<"Worker thread finished", WorkerId(t)>>)
    /\ th_thr' = [th_thr EXCEPT ![t] = "done"]
    /\ UNCHANGED <<th_main, th_joinable, num_threads, thread_pool, pool_i, pool_it>>
    /\ UNCHANGED otherThanThread

\* detached_worker() (lines 20-24).
DetachedWorker ==
    /\ ThRunning
    /\ \/ /\ th_thr["t2"] = "L21"
          /\ th_cout' = Append(th_cout, <<"Detached worker thread started", "">>)
          /\ th_thr' = [th_thr EXCEPT !["t2"] = "L23"]
       \/ /\ th_thr["t2"] = "L23"
          /\ th_cout' = Append(th_cout,
                                  <<"Detached worker thread finished its task", "">>)
          /\ th_thr' = [th_thr EXCEPT !["t2"] = "done"]
    /\ UNCHANGED <<th_main, th_joinable, num_threads, thread_pool, pool_i, pool_it>>
    /\ UNCHANGED otherThanThread

ThMain ==
    \/ ThMainPrint
    \/ ThMainPrintJoinable
    \/ ThMainSpawn
    \/ ThMainJoin
    \/ ThMainDetach
    \/ ThMainHardwareConcurrency
    \/ ThMainPoolEmplace
    \/ ThMainPoolJoin
    \/ ThMainReturn

ThThread ==
    \/ \E t \in Workers : WorkerStarted(t) \/ WorkerFinished(t)
    \/ DetachedWorker

ThNext == ThMain \/ ThThread

----------------------------------------------------------------------------
(* future.cpp *)

\* Threads: async1 runs the task of line 31, async2 that of line 52 and async5 that
\* of line 136 (the last two only when the implementation launches asynchronously).
TaskThreads == {"async1", "async2", "task_thread", "async5"}
Consumers == {"consumer1", "consumer2"}
FuThreads == TaskThreads \cup Consumers \cup {"producer_thread", "exception_thread"}

\* Shared states, each named after the std::future first attached to it.
FuStates == {"async_future", "timed_future", "promise_future", "future_with_error",
             "task_future", "original_future"}
Futures == FuStates \cup {"shared_future"}

\* shared_future shares the state of original_future (line 140).
StateOf(f) == IF f = "shared_future" THEN "original_future" ELSE f

\* std::promise objects: the two of main, and the parameters p of the two lambdas.
Promises == {"promise", "producer_p", "promise_with_error", "exception_p"}

FuLocals == {"result", "timed_result", "promise_result", "task_result",
             "consumer1", "consumer2"}

NoState == [status |-> "none", value |-> 0, launch |-> "none", started |-> FALSE,
            runs |-> 0, sets |-> 0]

FuInit ==
    /\ fu_main = "L27"
    /\ fu_thr = [t \in FuThreads |-> "none"]
    /\ shared_state = [s \in FuStates |-> NoState]
    /\ valid = [f \in Futures |-> FALSE]
    /\ has_state = [p \in Promises |-> FALSE]
    /\ fu_local = [x \in FuLocals |-> 0]
    /\ in_flight = [t \in {"main", "exception_thread"} |-> "none"]
    /\ inline_call = [c \in {"main"} \cup Consumers |-> "none"]
    /\ fu_cout = <<>>

\* The process is alive: main has not returned and std::terminate was not called.
FuRunning == fu_main \notin {"returned", "terminated"}

\* The shared state holds a value or an exception.
Ready(s) == shared_state[s].status \in {"value", "exception"}

\* A new shared state with no result; launch is "none" for a promise or a
\* packaged_task, "async" or "deferred" for std::async.
NewState(launch) == [NoState EXCEPT !.status = "pending", !.launch = launch]

\* Store a result (kind "value" or "exception") and make the state ready.
Satisfy(s, kind, v) ==
    [shared_state EXCEPT ![s].status = kind, ![s].value = v, ![s].sets = @ + 1]

\* calculate_sum(a, b): return a + b (line 15), on int.
calculate_sum(a, b) == a + b

\* The shared state a task thread completes, and the arguments bound to its task.
TaskState(t) ==
    CASE t = "async1" -> "async_future"
      [] t = "async2" -> "timed_future"
      [] t = "task_thread" -> "task_future"
      [] t = "async5" -> "original_future"

TaskArgs(s) ==
    CASE s = "async_future" -> <<10, 20>>
      [] s = "timed_future" -> <<50, 50>>
      [] s = "task_future" -> <<100, 200>>
      [] s = "original_future" -> <<1000, 2000>>

\* ---- main

\* Statements of main that only write a line. <<at, line, next statement>>
FuPrintTable ==
    { <<"L27", "--- Part 1", "L31">>,
      <<"L33", "Main thread is not blocked and continues to work", "L34">>,
      <<"L34", "Waiting for the asynchronous task to complete...", "L38">>,
      <<"L50", "--- Part 2", "L52">>,
      <<"L53", "Waiting for 1 second with wait_for()...", "L57">>,
      <<"L58", "Timeout! The task is not yet ready", "L61">>,
      <<"L61", "Waiting for the final result...", "L62">>,
      <<"L67", "--- Part 3", "L70">>,
      <<"L87", "Main thread is waiting for the promise to be fulfilled...", "L88">>,
      <<"L114", "--- Part 4", "L118">>,
      <<"L126", "Main thread waiting for the packaged task to complete...", "L127">>,
      <<"L131", "", "L134">>,
      <<"L134", "--- Part 5", "L136">> }

FuMainPrint ==
    /\ \E e \in FuPrintTable :
          /\ fu_main = e[1]
          /\ fu_cout' = Append(fu_cout, <<e[2], "">>)
          /\ fu_main' = e[3]
    /\ UNCHANGED <<fu_thr, shared_state, valid, has_state, fu_local,
                   in_flight, inline_call>>
    /\ UNCHANGED otherThanFuture

\* std::async(std::launch::async, calculate_sum, 10, 20) (line 31): a new thread
\* runs the task.
FuMainAsync ==
    /\ fu_main = "L31"
    /\ shared_state' = [shared_state EXCEPT !["async_future"] = NewState("async")]
    /\ valid' = [valid EXCEPT !["async_future"] = TRUE]
    /\ fu_thr' = [fu_thr EXCEPT !["async1"] = "L13"]
    /\ fu_main' = "L33"
    /\ UNCHANGED <<has_state, fu_local, in_flight, inline_call, fu_cout>>
    /\ UNCHANGED otherThanFuture

\* std::async(calculate_sum, ...) without a policy (lines 52, 136): the
\* implementation launches a thread or defers the call to the first wait()/get().
\* <<at, future, thread when asynchronous, next statement>>
FuAsyncTable ==
    { <<"L52", "timed_future", "async2", "L53">>,
      <<"L136", "original_future", "async5", "L140">> }

LaunchPolicies == {"async", "deferred"}

FuMainAsyncDefault ==
    /\ \E e \in FuAsyncTable, policy \in LaunchPolicies :
          /\ fu_main = e[1]
          /\ shared_state' = [shared_state EXCEPT ![e[2]] = NewState(policy)]
          /\ valid' = [valid EXCEPT ![e[2]] = TRUE]
          /\ fu_thr' = IF policy = "async"
                       THEN [fu_thr EXCEPT ![e[3]] = "L13"]
                       ELSE fu_thr
          /\ fu_main' = e[4]
    /\ UNCHANGED <<has_state, fu_local, in_flight, inline_call, fu_cout>>
    /\ UNCHANGED otherThanFuture

\* A deferred state that any waiter may run until the result is there, also while
\* another waiter is running it.
DeferredUnclaimed(s) == shared_state[s].launch = "deferred" /\ ~Ready(s)

\* The deferred function of s has not been started by any wait()/get().
Deferred(s) == shared_state[s].launch = "deferred" /\ ~shared_state[s].started

\* future::wait() (lines 38, 62): returns when the state is ready.
\* <<at, future, next statement>>
FuWaitTable == { <<"L38", "async_future", "L43">>, <<"L62", "timed_future", "L63">> }

FuMainWait ==
    /\ \E e \in FuWaitTable :
          /\ fu_main = e[1]
          /\ Ready(StateOf(e[2]))
          /\ fu_main' = e[3]
    /\ UNCHANGED <<fu_thr, shared_state, valid, has_state, fu_local,
                   in_flight, inline_call, fu_cout>>
    /\ UNCHANGED otherThanFuture

\* timed_future.wait_for(1s) == future_status::timeout (line 57): deferred for a
\* deferred task, ready for a ready state, timeout otherwise.
FuMainWaitFor ==
    /\ fu_main = "L57"
    /\ fu_main' = IF ~Deferred("timed_future") /\ ~Ready("timed_future")
                  THEN "L58"
                  ELSE "L61"
    /\ UNCHANGED <<fu_thr, shared_state, valid, has_state, fu_local,
                   in_flight, inline_call, fu_cout>>
    /\ UNCHANGED otherThanFuture

\* A get() that returns whatever the state holds, ready or not.
GetDoesNotWait(s) == shared_state[s].status \in {"pending", "value"}

\* get() returns a value once the state is ready and holds one.
HoldsValue(s) == shared_state[s].status = "value"

\* future::get() (lines 43, 63, 88, 107, 127): waits for the state to be ready,
\* invalidates the future, returns the value or rethrows the exception.
\* <<at, future, local that receives the value, next statement, handler>>
\* The handler is the catch clause of an enclosing try (lines 45, 108).
FuGetTable ==
    { <<"L43", "async_future", "result", "L44", "L46">>,
      <<"L63", "timed_future", "timed_result", "L64", "none">>,
      <<"L88", "promise_future", "promise_result", "L89", "none">>,
      <<"L107", "future_with_error", "none", "L111", "L109">>,
      <<"L127", "task_future", "task_result", "L128", "none">> }

FuMainGet ==
    /\ \E e \in FuGetTable :
          /\ fu_main = e[1]
          /\ HoldsValue(StateOf(e[2]))
          /\ valid' = [valid EXCEPT ![e[2]] = FALSE]
          /\ fu_local' = IF e[3] = "none"
                         THEN fu_local
                         ELSE [fu_local EXCEPT ![e[3]] = shared_state[StateOf(e[2])].value]
          /\ fu_main' = e[4]
    /\ UNCHANGED <<fu_thr, shared_state, has_state, in_flight, inline_call,
                   fu_cout>>
    /\ UNCHANGED otherThanFuture

\* A handler that names another branch of the hierarchy: catch (const
\* std::logic_error&) catches std::future_error, not std::runtime_error.
CaughtAsLogicError(x) == x \in {"future_error"}

\* catch (const std::exception& e) (lines 45, 108) catches std::runtime_error and
\* std::future_error, which derive from std::exception.
CaughtAsStdException(x) == x \in {"runtime_error", "future_error"}

FuMainGetThrows ==
    /\ \E e \in FuGetTable :
          /\ fu_main = e[1]
          /\ shared_state[StateOf(e[2])].status = "exception"
          /\ valid' = [valid EXCEPT ![e[2]] = FALSE]
          /\ LET x == shared_state[StateOf(e[2])].value IN
             IF e[5] # "none" /\ CaughtAsStdException(x)
             THEN /\ in_flight' = [in_flight EXCEPT !["main"] = x]
                  /\ fu_main' = e[5]
             ELSE /\ in_flight' = in_flight
                  /\ fu_main' = "terminated"
    /\ UNCHANGED <<fu_thr, shared_state, has_state, fu_local, inline_call,
                   fu_cout>>
    /\ UNCHANGED otherThanFuture

\* The handler of line 108 prints e.what() (line 109).
FuMainCatch ==
    /\ fu_main = "L109"
    /\ fu_cout' = Append(fu_cout,
                         <<"Caught expected exception from promise", in_flight["main"]>>)
    /\ in_flight' = [in_flight EXCEPT !["main"] = "none"]
    /\ fu_main' = "L111"
    /\ UNCHANGED <<fu_thr, shared_state, valid, has_state, fu_local,
                   inline_call>>
    /\ UNCHANGED otherThanFuture

\* Statements that print a local. <<at, text, local, next statement>>
FuResultTable ==
    { <<"L44", "Result from async task", "result", "L50">>,
      <<"L64", "Final result from timed wait", "timed_result", "L67">>,
      <<"L89", "Result from promise", "promise_result", "L91">>,
      <<"L128", "Result from packaged task", "task_result", "L130">> }

FuMainPrintResult ==
    /\ \E e \in FuResultTable :
          /\ fu_main = e[1]
          /\ fu_cout' = Append(fu_cout, <<e[2], fu_local[e[3]]>>)
          /\ fu_main' = e[4]
    /\ UNCHANGED <<fu_thr, shared_state, valid, has_state, fu_local,
                   in_flight, inline_call>>
    /\ UNCHANGED otherThanFuture

\* std::promise<int> and get_future() (lines 70-74, 94-95); std::packaged_task and
\* get_future() (lines 118-121). <<at, promise or "none", future, next statement>>
FuPromiseTable ==
    { <<"L70", "promise", "promise_future", "L85">>,
      <<"L94", "promise_with_error", "future_with_error", "L104">>,
      <<"L118", "none", "task_future", "L124">> }

FuMainPromise ==
    /\ \E e \in FuPromiseTable :
          /\ fu_main = e[1]
          /\ shared_state' = [shared_state EXCEPT ![e[3]] = NewState("none")]
          /\ valid' = [valid EXCEPT ![e[3]] = TRUE]
          /\ has_state' = IF e[2] = "none"
                          THEN has_state
                          ELSE [has_state EXCEPT ![e[2]] = TRUE]
          /\ fu_main' = e[4]
    /\ UNCHANGED <<fu_thr, fu_local, in_flight, inline_call, fu_cout>>
    /\ UNCHANGED otherThanFuture

\* std::thread constructions (lines 85, 104, 124, 150, 151).
\* <<at, thread, entry, promise moved from, promise moved to, next statement>>
FuSpawnTable ==
    { <<"L85", "producer_thread", "L78", "promise", "producer_p", "L87">>,
      <<"L104", "exception_thread", "L98", "promise_with_error", "exception_p", "L107">>,
      <<"L124", "task_thread", "L13", "none", "none", "L126">>,
      <<"L150", "consumer1", "L144", "none", "none", "L151">>,
      <<"L151", "consumer2", "L144", "none", "none", "L153">> }

\* std::move(promise) into the thread: the parameter p takes over the shared state
\* and the moved-from promise has none.
MovePromise(from, to) ==
    IF from = "none"
    THEN has_state
    ELSE [has_state EXCEPT ![to] = has_state[from], ![from] = FALSE]

FuMainSpawn ==
    /\ \E e \in FuSpawnTable :
          /\ fu_main = e[1]
          /\ fu_thr' = [fu_thr EXCEPT ![e[2]] = e[3]]
          /\ has_state' = MovePromise(e[4], e[5])
          /\ fu_main' = e[6]
    /\ UNCHANGED <<shared_state, valid, fu_local, in_flight, inline_call,
                   fu_cout>>
    /\ UNCHANGED otherThanFuture

\* join() calls (lines 91, 111, 130, 153, 154). <<at, thread, next statement>>
FuJoinTable ==
    { <<"L91", "producer_thread", "L94">>,
      <<"L111", "exception_thread", "L114">>,
      <<"L130", "task_thread", "L131">>,
      <<"L153", "consumer1", "L154">>,
      <<"L154", "consumer2", "L158">> }

\* std::thread::join() returns once the thread's function has returned.
FuCanJoin(t) == fu_thr[t] = "done"

FuMainJoin ==
    /\ \E e \in FuJoinTable :
          /\ fu_main = e[1]
          /\ FuCanJoin(e[2])
          /\ fu_thr' = [fu_thr EXCEPT ![e[2]] = "joined"]
          /\ fu_main' = e[3]
    /\ UNCHANGED <<shared_state, valid, has_state, fu_local, in_flight,
                   inline_call, fu_cout>>
    /\ UNCHANGED otherThanFuture

\* original_future.share() (line 140): the state moves to the shared_future.
ShareValidity == [valid EXCEPT !["shared_future"] = valid["original_future"],
                               !["original_future"] = FALSE]

FuMainShare ==
    /\ fu_main = "L140"
    /\ valid' = ShareValidity
    /\ fu_main' = "L150"
    /\ UNCHANGED <<fu_thr, shared_state, has_state, fu_local, in_flight,
                   inline_call, fu_cout>>
    /\ UNCHANGED otherThanFuture

\* std::cout << ... << f.valid() (lines 158, 160). <<at, text, future, next>>
FuValidTable ==
    { <<"L158", "Is original_future valid?", "original_future", "L160">>,
      <<"L160", "Is shared_future valid?", "shared_future", "L162">> }

FuMainPrintValid ==
    /\ \E e \in FuValidTable :
          /\ fu_main = e[1]
          /\ fu_cout' = Append(fu_cout, <<e[2], valid[e[3]]>>)
          /\ fu_main' = e[4]
    /\ UNCHANGED <<fu_thr, shared_state, valid, has_state, fu_local,
                   in_flight, inline_call>>
    /\ UNCHANGED otherThanFuture

FuMainReturn ==
    /\ fu_main = "L162"
    /\ fu_main' = "returned"
    /\ UNCHANGED <<fu_thr, shared_state, valid, has_state, fu_local,
                   in_flight, inline_call, fu_cout>>
    /\ UNCHANGED otherThanFuture

\* ---- calculate_sum on a thread of its own (lines 12-16): async tasks and the
\* packaged_task

CalcSumStart(t) ==
    /\ FuRunning
    /\ fu_thr[t] = "L13"
    /\ fu_cout' = Append(fu_cout, <<"Calculating sum...", "">>)
    /\ shared_state' = [shared_state EXCEPT ![TaskState(t)].runs = @ + 1]
    /\ fu_thr' = [fu_thr EXCEPT ![t] = "L15"]
    /\ UNCHANGED <<fu_main, valid, has_state, fu_local, in_flight,
                   inline_call>>
    /\ UNCHANGED otherThanFuture

CalcSumReturn(t) ==
    /\ FuRunning
    /\ fu_thr[t] = "L15"
    /\ LET s == TaskState(t) IN
       shared_state' = Satisfy(s, "value", calculate_sum(TaskArgs(s)[1], TaskArgs(s)[2]))
    /\ fu_thr' = [fu_thr EXCEPT ![t] = "done"]
    /\ UNCHANGED <<fu_main, valid, has_state, fu_local, in_flight,
                   inline_call, fu_cout>>
    /\ UNCHANGED otherThanFuture

\* ---- a deferred task, run by the first thread that waits for its result
\* <<caller, statement that waits, future>>
FuDeferredCallers ==
    { <<"main", "L62", "timed_future">>,
      <<"consumer1", "L146", "shared_future">>,
      <<"consumer2", "L146", "shared_future">> }

FuPc(c) == IF c = "main" THEN fu_main ELSE fu_thr[c]

\* The caller claims the deferred function and enters calculate_sum (line 13).
DeferredStart ==
    /\ FuRunning
    /\ \E e \in FuDeferredCallers :
          /\ FuPc(e[1]) = e[2]
          /\ Deferred(StateOf(e[3]))
          /\ inline_call' = [inline_call EXCEPT ![e[1]] = StateOf(e[3])]
          /\ shared_state' = [shared_state EXCEPT ![StateOf(e[3])].started = TRUE,
                                                  ![StateOf(e[3])].runs = @ + 1]
    /\ fu_cout' = Append(fu_cout, <<"Calculating sum...", "">>)
    /\ UNCHANGED <<fu_main, fu_thr, valid, has_state, fu_local, in_flight>>
    /\ UNCHANGED otherThanFuture

\* calculate_sum returns in the caller (line 15): the state is ready.
DeferredReturn ==
    /\ FuRunning
    /\ \E c \in DOMAIN inline_call :
          /\ inline_call[c] # "none"
          /\ LET s == inline_call[c] IN
             shared_state' =
                 Satisfy(s, "value", calculate_sum(TaskArgs(s)[1], TaskArgs(s)[2]))
          /\ inline_call' = [inline_call EXCEPT ![c] = "none"]
    /\ UNCHANGED <<fu_main, fu_thr, valid, has_state, fu_local, in_flight,
                   fu_cout>>
    /\ UNCHANGED otherThanFuture

\* ---- producer_task (lines 77-83)

ProducerPrint ==
    /\ FuRunning
    /\ \/ /\ fu_thr["producer_thread"] = "L78"
          /\ fu_cout' = Append(fu_cout, <<"Producer thread started...", "">>)
          /\ fu_thr' = [fu_thr EXCEPT !["producer_thread"] = "L81"]
       \/ /\ fu_thr["producer_thread"] = "L82"
          /\ fu_cout' = Append(fu_cout, <<"Producer thread set the value 42", "">>)
          /\ fu_thr' = [fu_thr EXCEPT !["producer_thread"] = "L83"]
    /\ UNCHANGED <<fu_main, shared_state, valid, has_state, fu_local,
                   in_flight, inline_call>>
    /\ UNCHANGED otherThanFuture

\* p.set_value(42) (line 81). On a promise without a state, or with a state already
\* satisfied, set_value throws std::future_error, which nothing in the lambda
\* catches: std::terminate.
ProducerSetValue ==
    /\ FuRunning
    /\ fu_thr["producer_thread"] = "L81"
    /\ IF has_state["producer_p"] /\ ~Ready("promise_future")
       THEN /\ shared_state' = Satisfy("promise_future", "value", 42)
            /\ fu_thr' = [fu_thr EXCEPT !["producer_thread"] = "L82"]
            /\ UNCHANGED fu_main
       ELSE /\ fu_main' = "terminated"
            /\ UNCHANGED <<shared_state, fu_thr>>
    /\ UNCHANGED <<valid, has_state, fu_local, in_flight, inline_call,
                   fu_cout>>
    /\ UNCHANGED otherThanFuture

\* ~promise at the end of a lambda (lines 83, 103): a state that is not ready gets
\* std::future_error (broken_promise).
AbandonState(p, s) ==
    IF has_state[p] /\ ~Ready(s)
    THEN Satisfy(s, "exception", "future_error")
    ELSE shared_state

ProducerEnd ==
    /\ FuRunning
    /\ fu_thr["producer_thread"] = "L83"
    /\ shared_state' = AbandonState("producer_p", "promise_future")
    /\ has_state' = [has_state EXCEPT !["producer_p"] = FALSE]
    /\ fu_thr' = [fu_thr EXCEPT !["producer_thread"] = "done"]
    /\ UNCHANGED <<fu_main, valid, fu_local, in_flight, inline_call, fu_cout>>
    /\ UNCHANGED otherThanFuture

\* ---- exception_producer (lines 96-103) and calculate_with_error (lines 19-24)

\* calculate_with_error prints (line 20), then throws std::runtime_error (line 22).
CalculateWithError ==
    /\ FuRunning
    /\ \/ /\ fu_thr["exception_thread"] = "L98"
          /\ fu_cout' = Append(fu_cout,
                               <<"Task started, but will throw an exception", "">>)
          /\ fu_thr' = [fu_thr EXCEPT !["exception_thread"] = "L22"]
          /\ UNCHANGED in_flight
       \/ /\ fu_thr["exception_thread"] = "L22"
          /\ in_flight' = [in_flight EXCEPT !["exception_thread"] = "runtime_error"]
          /\ fu_thr' = [fu_thr EXCEPT !["exception_thread"] = "L99"]
          /\ UNCHANGED fu_cout
    /\ UNCHANGED <<fu_main, shared_state, valid, has_state, fu_local,
                   inline_call>>
    /\ UNCHANGED otherThanFuture

\* catch (...) (line 99) catches every exception.
CaughtByCatchAll(x) == TRUE

\* The exception reaches the handler of line 99; one that no handler catches leaves
\* the thread function: std::terminate.
ExceptionProducerCatch ==
    /\ FuRunning
    /\ fu_thr["exception_thread"] = "L99"
    /\ IF CaughtByCatchAll(in_flight["exception_thread"])
       THEN /\ fu_thr' = [fu_thr EXCEPT !["exception_thread"] = "L101"]
            /\ UNCHANGED fu_main
       ELSE /\ fu_main' = "terminated"
            /\ UNCHANGED fu_thr
    /\ UNCHANGED <<shared_state, valid, has_state, fu_local, in_flight,
                   inline_call, fu_cout>>
    /\ UNCHANGED otherThanFuture

\* p.set_exception(std::current_exception()) (line 101).
ExceptionProducerSet ==
    /\ FuRunning
    /\ fu_thr["exception_thread"] = "L101"
    /\ IF has_state["exception_p"] /\ ~Ready("future_with_error")
       THEN /\ shared_state' = Satisfy("future_with_error", "exception",
                                       in_flight["exception_thread"])
            /\ in_flight' = [in_flight EXCEPT !["exception_thread"] = "none"]
            /\ fu_thr' = [fu_thr EXCEPT !["exception_thread"] = "L103"]
            /\ UNCHANGED fu_main
       ELSE /\ fu_main' = "terminated"
            /\ UNCHANGED <<shared_state, in_flight, fu_thr>>
    /\ UNCHANGED <<valid, has_state, fu_local, inline_call, fu_cout>>
    /\ UNCHANGED otherThanFuture

ExceptionProducerEnd ==
    /\ FuRunning
    /\ fu_thr["exception_thread"] = "L103"
    /\ shared_state' = AbandonState("exception_p", "future_with_error")
    /\ has_state' = [has_state EXCEPT !["exception_p"] = FALSE]
    /\ fu_thr' = [fu_thr EXCEPT !["exception_thread"] = "done"]
    /\ UNCHANGED <<fu_main, valid, fu_local, in_flight, inline_call, fu_cout>>
    /\ UNCHANGED otherThanFuture

\* ---- consumer_task (lines 143-148)

\* The id passed to consumer_task (lines 150, 151).
ConsumerId(c) == IF c = "consumer1" THEN 1 ELSE 2

ConsumerWaiting(c) ==
    /\ FuRunning
    /\ fu_thr[c] = "L144"
    /\ fu_cout' = Append(fu_cout, <<"Consumer waiting for the shared result...",
                                    ConsumerId(c)>>)
    /\ fu_thr' = [fu_thr EXCEPT ![c] = "L146"]
    /\ UNCHANGED <<fu_main, shared_state, valid, has_state, fu_local,
                   in_flight, inline_call>>
    /\ UNCHANGED otherThanFuture

\* int result = shared_future.get() (line 146): waits for the state to be ready; the
\* shared_future stays valid.
ConsumerGet(c) ==
    /\ FuRunning
    /\ fu_thr[c] = "L146"
    /\ HoldsValue(StateOf("shared_future"))
    /\ fu_local' = [fu_local EXCEPT ![c] = shared_state[StateOf("shared_future")].value]
    /\ fu_thr' = [fu_thr EXCEPT ![c] = "L147"]
    /\ UNCHANGED <<fu_main, shared_state, valid, has_state, in_flight,
                   inline_call, fu_cout>>
    /\ UNCHANGED otherThanFuture

ConsumerReceived(c) ==
    /\ FuRunning
    /\ fu_thr[c] = "L147"
    /\ fu_cout' = Append(fu_cout, <<"Consumer received result",
                                    <<ConsumerId(c), fu_local[c]>>>>)
    /\ fu_thr' = [fu_thr EXCEPT ![c] = "done"]
    /\ UNCHANGED <<fu_main, shared_state, valid, has_state, fu_local,
                   in_flight, inline_call>>
    /\ UNCHANGED otherThanFuture

FuMain ==
    \/ FuMainPrint
    \/ FuMainAsync
    \/ FuMainAsyncDefault
    \/ FuMainWait
    \/ FuMainWaitFor
    \/ FuMainGet
    \/ FuMainGetThrows
    \/ FuMainCatch
    \/ FuMainPrintResult
    \/ FuMainPromise
    \/ FuMainSpawn
    \/ FuMainJoin
    \/ FuMainShare
    \/ FuMainPrintValid
    \/ FuMainReturn

FuThread ==
    \/ \E t \in TaskThreads : CalcSumStart(t) \/ CalcSumReturn(t)
    \/ DeferredStart
    \/ DeferredReturn
    \/ ProducerPrint
    \/ ProducerSetValue
    \/ ProducerEnd
    \/ CalculateWithError
    \/ ExceptionProducerCatch
    \/ ExceptionProducerSet
    \/ ExceptionProducerEnd
    \/ \E c \in Consumers : ConsumerWaiting(c) \/ ConsumerGet(c) \/ ConsumerReceived(c)

FuNext == FuMain \/ FuThread

----------------------------------------------------------------------------
(* memory.cpp *)

Resources == {"unique_resource", "shared_resource", "weak_resource"}
Null == "null"

\* int values an uninitialized int of the raw buffer may hold (line 117).
GarbageValues == 0..MaxGarbage

MeInit ==
    /\ me_main = "L38"
    /\ unique_res = Null
    /\ shared_res1 = Null
    /\ shared_res2 = Null
    /\ strong_ptr = Null
    /\ weak_ptr = Null
    /\ locked_ptr = Null
    /\ use_count = [r \in Resources |-> 0]
    /\ weak_count = [r \in Resources |-> 0]
    /\ alive = [r \in Resources |-> FALSE]
    /\ dtor_calls = [r \in Resources |-> 0]
    /\ raw_memory = <<>>
    /\ me_i = 0
    /\ me_cout = <<>>

\* Statements of main that only write a line. <<at, line, next statement>>
MePrintTable ==
    { <<"L38", "--- Part 1: Smart Pointers ---", "L42">>,
      <<"L42", "1. Demonstrating std::unique_ptr:", "L46">>,
      <<"L49", "unique_ptr has gone out of scope.", "L55">>,
      <<"L55", "2. Demonstrating std::shared_ptr:", "L58">>,
      <<"L68", "shared_ptrs have gone out of scope.", "L74">>,
      <<"L74", "3. Demonstrating std::weak_ptr:", "L78">>,
      <<"L87", "weak_ptr is expired, object no longer exists.", "L90">>,
      <<"L90", "strong_ptr has gone out of scope.", "L93">>,
      <<"L96", "weak_ptr is expired, object no longer exists.", "L101">>,
      <<"L101", "--- Part 2: Low-Level Memory Utilities ---", "L105">>,
      <<"L105", "4. Demonstrating std::addressof:", "L108">>,
      <<"L108", "Address using regular '&': 0", "L110">>,
      <<"L110", "Address using std::addressof: (address of my_obj)", "L114">>,
      <<"L114", "5. Demonstrating std::uninitialized_fill:", "L117">>,
      <<"L122", "Filled raw memory with: ", "L123">>,
      <<"L126", "", "L129">> }

MeMainPrint ==
    /\ \E e \in MePrintTable :
          /\ me_main = e[1]
          /\ me_cout' = Append(me_cout, <<e[2], "">>)
          /\ me_main' = e[3]
    /\ UNCHANGED <<unique_res, shared_res1, shared_res2, strong_ptr, weak_ptr,
                   locked_ptr, use_count, weak_count, alive, dtor_calls,
                   raw_memory, me_i>>
    /\ UNCHANGED otherThanMemory

\* Resource::Resource (lines 12-14) and Resource::~Resource (lines 17-19) print.
CreatedLine(r) == <<"Resource created", r>>
DestroyedLine(r) == <<"Resource destroyed", r>>

\* std::make_unique<Resource>("unique_resource") (line 46).
MeMakeUnique ==
    /\ me_main = "L46"
    /\ alive' = [alive EXCEPT !["unique_resource"] = TRUE]
    /\ unique_res' = "unique_resource"
    /\ me_cout' = Append(me_cout, CreatedLine("unique_resource"))
    /\ me_main' = "L47"
    /\ UNCHANGED <<shared_res1, shared_res2, strong_ptr, weak_ptr, locked_ptr,
                   use_count, weak_count, dtor_calls, raw_memory, me_i>>
    /\ UNCHANGED otherThanMemory

\* p->do_something() (lines 47, 85) prints (line 22). <<at, pointer, next statement>>
MeDoSomething ==
    /\ \/ /\ me_main = "L47"
          /\ me_cout' = Append(me_cout, <<"Resource is doing something", unique_res>>)
          /\ me_main' = "L48"
       \/ /\ me_main = "L85"
          /\ me_cout' = Append(me_cout, <<"Resource is doing something", locked_ptr>>)
          /\ me_main' = "L88"
    /\ UNCHANGED <<unique_res, shared_res1, shared_res2, strong_ptr, weak_ptr,
                   locked_ptr, use_count, weak_count, alive, dtor_calls,
                   raw_memory, me_i>>
    /\ UNCHANGED otherThanMemory

\* End of the block (line 48): ~unique_ptr deletes the object it owns.
MeUniqueScopeEnd ==
    /\ me_main = "L48"
    /\ IF unique_res # Null
       THEN /\ alive' = [alive EXCEPT ![unique_res] = FALSE]
            /\ dtor_calls' = [dtor_calls EXCEPT ![unique_res] = @ + 1]
            /\ me_cout' = Append(me_cout, DestroyedLine(unique_res))
       ELSE UNCHANGED <<alive, dtor_calls, me_cout>>
    /\ unique_res' = Null
    /\ me_main' = "L49"
    /\ UNCHANGED <<shared_res1, shared_res2, strong_ptr, weak_ptr, locked_ptr,
                   use_count, weak_count, raw_memory, me_i>>
    /\ UNCHANGED otherThanMemory

\* std::make_shared<Resource>(name) (lines 58, 78): one owner.
MeMakeShared ==
    /\ \/ /\ me_main = "L58"
          /\ shared_res1' = "shared_resource"
          /\ alive' = [alive EXCEPT !["shared_resource"] = TRUE]
          /\ use_count' = [use_count EXCEPT !["shared_resource"] = 1]
          /\ me_cout' = Append(me_cout, CreatedLine("shared_resource"))
          /\ me_main' = "L61"
          /\ UNCHANGED strong_ptr
       \/ /\ me_main = "L78"
          /\ strong_ptr' = "weak_resource"
          /\ alive' = [alive EXCEPT !["weak_resource"] = TRUE]
          /\ use_count' = [use_count EXCEPT !["weak_resource"] = 1]
          /\ me_cout' = Append(me_cout, CreatedLine("weak_resource"))
          /\ me_main' = "L79"
          /\ UNCHANGED shared_res1
    /\ UNCHANGED <<unique_res, shared_res2, weak_ptr, locked_ptr, weak_count,
                   dtor_calls, raw_memory, me_i>>
    /\ UNCHANGED otherThanMemory

\* A copy that shares the object without counting the new owner.
CopySharedUncounted(r) == use_count

\* Copying a shared_ptr that owns r adds an owner.
CopyShared(r) == [use_count EXCEPT ![r] = @ + 1]

\* auto shared_res2 = shared_res1 (line 61).
MeCopyShared ==
    /\ me_main = "L61"
    /\ shared_res2' = shared_res1
    /\ use_count' = CopyShared(shared_res1)
    /\ me_main' = "L63"
    /\ UNCHANGED <<unique_res, shared_res1, strong_ptr, weak_ptr, locked_ptr,
                   weak_count, alive, dtor_calls, raw_memory, me_i, me_cout>>
    /\ UNCHANGED otherThanMemory

\* std::cout << ... << p.use_count() (lines 63, 64).
MePrintUseCount ==
    /\ \/ /\ me_main = "L63"
          /\ me_cout' = Append(me_cout, <<"shared_res1 use count", use_count[shared_res1]>>)
          /\ me_main' = "L64"
       \/ /\ me_main = "L64"
          /\ me_cout' = Append(me_cout, <<"shared_res2 use count", use_count[shared_res2]>>)
          /\ me_main' = "L66"
    /\ UNCHANGED <<unique_res, shared_res1, shared_res2, strong_ptr, weak_ptr,
                   locked_ptr, use_count, weak_count, alive, dtor_calls,
                   raw_memory, me_i>>
    /\ UNCHANGED otherThanMemory

\* ~shared_ptr of a pointer that owns r: one owner fewer, and the object is destroyed
\* when none is left.
LastOwner(r) == use_count[r] = 1

ReleaseShared(r) ==
    /\ use_count' = [use_count EXCEPT ![r] = @ - 1]
    /\ IF LastOwner(r)
       THEN /\ alive' = [alive EXCEPT ![r] = FALSE]
            /\ dtor_calls' = [dtor_calls EXCEPT ![r] = @ + 1]
            /\ me_cout' = Append(me_cout, DestroyedLine(r))
       ELSE UNCHANGED <<alive, dtor_calls, me_cout>>

\* End of the block (line 66): shared_res2 is destroyed, then shared_res1.
MeSharedScopeEnd ==
    /\ \/ /\ me_main = "L66"
          /\ ReleaseShared(shared_res2)
          /\ shared_res2' = Null
          /\ me_main' = "L66_res1"
          /\ UNCHANGED shared_res1
       \/ /\ me_main = "L66_res1"
          /\ ReleaseShared(shared_res1)
          /\ shared_res1' = Null
          /\ me_main' = "L68"
          /\ UNCHANGED shared_res2
    /\ UNCHANGED <<unique_res, strong_ptr, weak_ptr, locked_ptr, weak_count,
                   raw_memory, me_i>>
    /\ UNCHANGED otherThanMemory

\* weak_ptr = strong_ptr (line 79): observes the object, owns nothing.
MeAssignWeak ==
    /\ me_main = "L79"
    /\ weak_ptr' = strong_ptr
    /\ weak_count' = [weak_count EXCEPT ![strong_ptr] = @ + 1]
    /\ me_main' = "L83"
    /\ UNCHANGED <<unique_res, shared_res1, shared_res2, strong_ptr,
                   locked_ptr, use_count, alive, dtor_calls, raw_memory, me_i,
                   me_cout>>
    /\ UNCHANGED otherThanMemory

\* weak_ptr::expired(): nothing observed, or no owner left.
Expired(w) == w = Null \/ use_count[w] = 0

\* if (auto locked_ptr = weak_ptr.lock()) (lines 83, 93): a new owner of the object
\* when it still has one, an empty pointer otherwise.
\* <<at, next when locked, next when empty>>
MeLockTable == { <<"L83", "L84", "L87">>, <<"L93", "L94", "L96">> }

MeLockWeak ==
    /\ \E e \in MeLockTable :
          /\ me_main = e[1]
          /\ IF Expired(weak_ptr)
             THEN /\ locked_ptr' = Null
                  /\ me_main' = e[3]
                  /\ UNCHANGED use_count
             ELSE /\ locked_ptr' = weak_ptr
                  /\ use_count' = [use_count EXCEPT ![weak_ptr] = @ + 1]
                  /\ me_main' = e[2]
    /\ UNCHANGED <<unique_res, shared_res1, shared_res2, strong_ptr, weak_ptr,
                   weak_count, alive, dtor_calls, raw_memory, me_i, me_cout>>
    /\ UNCHANGED otherThanMemory

\* The first branch of the if (lines 84, 94).
MeLockedPrint ==
    /\ \/ /\ me_main = "L84"
          /\ me_cout' = Append(me_cout, <<"weak_ptr is locked, object still alive.", "">>)
          /\ me_main' = "L85"
       \/ /\ me_main = "L94"
          /\ me_cout' = Append(me_cout,
                 <<"(This should not be printed) weak_ptr is locked, object still alive.",
                   "">>)
          /\ me_main' = "L95"
    /\ UNCHANGED <<unique_res, shared_res1, shared_res2, strong_ptr, weak_ptr,
                   locked_ptr, use_count, weak_count, alive, dtor_calls,
                   raw_memory, me_i>>
    /\ UNCHANGED otherThanMemory

\* End of the if statement (lines 88, 95): locked_ptr is destroyed. The block that
\* ends at line 89 declares nothing else: strong_ptr is declared at line 75.
MeLockedScopeEnd ==
    /\ \/ me_main = "L88" /\ me_main' = "L90"
       \/ me_main = "L95" /\ me_main' = "L101"
    /\ ReleaseShared(locked_ptr)
    /\ locked_ptr' = Null
    /\ UNCHANGED <<unique_res, shared_res1, shared_res2, strong_ptr, weak_ptr,
                   weak_count, raw_memory, me_i>>
    /\ UNCHANGED otherThanMemory

\* ::operator new(sizeof(int) * count) (line 117): count ints of indeterminate value.
MeAllocate ==
    /\ me_main = "L117"
    /\ raw_memory' \in [1..BufferCount -> GarbageValues]
    /\ me_i' = 0
    /\ me_main' = "L120"
    /\ UNCHANGED <<unique_res, shared_res1, shared_res2, strong_ptr, weak_ptr,
                   locked_ptr, use_count, weak_count, alive, dtor_calls,
                   me_cout>>
    /\ UNCHANGED otherThanMemory

\* std::uninitialized_fill(raw_memory, raw_memory + count, 10) (line 120) constructs
\* one int after the other.
MeUninitializedFill ==
    /\ me_main = "L120"
    /\ IF me_i < BufferCount
       THEN /\ raw_memory' = [raw_memory EXCEPT ![me_i + 1] = 10]
            /\ me_i' = me_i + 1
            /\ UNCHANGED me_main
       ELSE /\ me_i' = 0
            /\ me_main' = "L122"
            /\ UNCHANGED raw_memory
    /\ UNCHANGED <<unique_res, shared_res1, shared_res2, strong_ptr, weak_ptr,
                   locked_ptr, use_count, weak_count, alive, dtor_calls,
                   me_cout>>
    /\ UNCHANGED otherThanMemory

\* for (int i = 0; i < count; ++i) std::cout << raw_memory[i] << " " (lines 123-125)
MePrintBuffer ==
    /\ me_main = "L123"
    /\ IF me_i < BufferCount
       THEN /\ me_cout' = Append(me_cout, <<"raw_memory[i]", raw_memory[me_i + 1]>>)
            /\ me_i' = me_i + 1
            /\ UNCHANGED me_main
       ELSE /\ me_main' = "L126"
            /\ UNCHANGED <<me_cout, me_i>>
    /\ UNCHANGED <<unique_res, shared_res1, shared_res2, strong_ptr, weak_ptr,
                   locked_ptr, use_count, weak_count, alive, dtor_calls,
                   raw_memory>>
    /\ UNCHANGED otherThanMemory

\* ::operator delete(raw_memory) (line 129).
MeDeallocate ==
    /\ me_main = "L129"
    /\ raw_memory' = <<>>
    /\ me_main' = "L131"
    /\ UNCHANGED <<unique_res, shared_res1, shared_res2, strong_ptr, weak_ptr,
                   locked_ptr, use_count, weak_count, alive, dtor_calls, me_i,
                   me_cout>>
    /\ UNCHANGED otherThanMemory

\* return 0 (line 131): the locals of main are destroyed in reverse order of
\* declaration, weak_ptr (line 76) before strong_ptr (line 75).
MeMainReturn ==
    /\ \/ /\ me_main = "L131"
          /\ weak_count' = IF weak_ptr = Null
                           THEN weak_count
                           ELSE [weak_count EXCEPT ![weak_ptr] = @ - 1]
          /\ weak_ptr' = Null
          /\ me_main' = "L131_strong"
          /\ UNCHANGED <<strong_ptr, use_count, alive, dtor_calls, me_cout>>
       \/ /\ me_main = "L131_strong"
          /\ IF strong_ptr = Null
             THEN UNCHANGED <<use_count, alive, dtor_calls, me_cout>>
             ELSE ReleaseShared(strong_ptr)
          /\ strong_ptr' = Null
          /\ me_main' = "returned"
          /\ UNCHANGED <<weak_ptr, weak_count>>
    /\ UNCHANGED <<unique_res, shared_res1, shared_res2, locked_ptr,
                   raw_memory, me_i>>
    /\ UNCHANGED otherThanMemory

MeNext ==
    \/ MeMainPrint
    \/ MeMakeUnique
    \/ MeDoSomething
    \/ MeUniqueScopeEnd
    \/ MeMakeShared
    \/ MeCopyShared
    \/ MePrintUseCount
    \/ MeSharedScopeEnd
    \/ MeAssignWeak
    \/ MeLockWeak
    \/ MeLockedPrint
    \/ MeLockedScopeEnd
    \/ MeAllocate
    \/ MeUninitializedFill
    \/ MePrintBuffer
    \/ MeDeallocate
    \/ MeMainReturn

----------------------------------------------------------------------------
(* optional.cpp *)

\* std::nullopt, and an optional that holds v.
Nullopt == [has |-> FALSE, val |-> 0]
Some(v) == [has |-> TRUE, val |-> v]

\* find_first_even (lines 11-18): the first even number, or std::nullopt.
RECURSIVE find_first_even(_)
find_first_even(numbers) ==
    IF numbers = <<>> THEN Nullopt
    ELSE IF Head(numbers) % 2 = 0 THEN Some(Head(numbers))
    ELSE find_first_even(Tail(numbers))

\* optional::value() on o throws std::bad_optional_access when o is empty.
ValueThrows(o) == ~o.has

\* optional::value_or(d).
value_or(o, d) == IF o.has THEN o.val ELSE d

\* operator< on optionals: an empty optional is less than one with a value.
OptionalLess(x, y) == y.has /\ (~x.has \/ x.val < y.val)

OpInit ==
    /\ op_main = "L22"
    /\ found_val = Nullopt
    /\ empty_opt = Nullopt
    /\ op_caught = "none"
    /\ op_cout = <<>>
    /\ op_cerr = <<>>

\* Part 1 (lines 22-38): the four optionals and their has_value() lines.
OpPart1 ==
    /\ op_main = "L22"
    /\ op_cout' = op_cout \o
          << <<"--- Part 1: Constructors and Initialization ---", "">>,
             <<"opt_str_default.has_value()", Nullopt.has>>,
             <<"opt_int_nullopt.has_value()", Nullopt.has>>,
             <<"opt_double_value.has_value()", Some("3.14").has>>,
             <<"opt_double_value value", Some("3.14").val>>,
             <<"opt_double_copy.has_value()", Some("3.14").has>>,
             <<"opt_double_copy value", Some("3.14").val>> >>
    /\ op_main' = "L42"
    /\ UNCHANGED <<found_val, empty_opt, op_caught, op_cerr>>
    /\ UNCHANGED otherThanOptional

\* found_val = find_first_even({1, 3, 5, 8, 10}) (lines 42-44).
OpFind ==
    /\ op_main = "L42"
    /\ found_val' = find_first_even(<<1, 3, 5, 8, 10>>)
    /\ op_cout' = Append(op_cout, <<"--- Part 2: Observers (Accessing the value) ---", "">>)
    /\ op_main' = "L47"
    /\ UNCHANGED <<empty_opt, op_caught, op_cerr>>
    /\ UNCHANGED otherThanOptional

\* if (found_val.has_value()) and if (found_val) (lines 47-53).
OpCheck ==
    /\ \/ /\ op_main = "L47"
          /\ op_main' = "L51"
          /\ op_cout' = IF found_val.has
                        THEN Append(op_cout, <<"has_value() check", found_val.val>>)
                        ELSE op_cout
       \/ /\ op_main = "L51"
          /\ op_main' = "L57"
          /\ op_cout' = IF found_val.has
                        THEN Append(op_cout, <<"operator bool() check", found_val.val>>)
                        ELSE op_cout
    /\ UNCHANGED <<found_val, empty_opt, op_caught, op_cerr>>
    /\ UNCHANGED otherThanOptional

\* The handler of the try block of lines 56-62 catches std::bad_optional_access only
\* (no class derives from it in the program).
OpHandlerCatchesOutOfRange(x) == x = "out_of_range"

OpHandlerCatches(x) == x = "bad_optional_access"

\* Where control goes when x is thrown inside the try block: to the handler of line
\* 62 when it catches x, else out of main (std::terminate).
OpThrow(x) ==
    IF OpHandlerCatches(x)
    THEN op_main' = "L63" /\ op_caught' = x
    ELSE op_main' = "terminated" /\ op_caught' = op_caught

\* std::cout << ... << found_val.value() (line 57) and std::cout << empty_opt.value()
\* (line 61): value() is evaluated before anything of the statement is written.
OpValueInTry ==
    /\ \/ /\ op_main = "L57"
          /\ IF ValueThrows(found_val)
             THEN OpThrow("bad_optional_access") /\ UNCHANGED op_cout
             ELSE /\ op_cout' = Append(op_cout, <<"Using value()", found_val.val>>)
                  /\ op_main' = "L59"
                  /\ UNCHANGED op_caught
       \/ /\ op_main = "L61"
          /\ IF ValueThrows(empty_opt)
             THEN OpThrow("bad_optional_access") /\ UNCHANGED op_cout
             ELSE /\ op_cout' = Append(op_cout, <<"empty_opt.value()", empty_opt.val>>)
                  /\ op_main' = "L68"
                  /\ UNCHANGED op_caught
    /\ UNCHANGED <<found_val, empty_opt, op_cerr>>
    /\ UNCHANGED otherThanOptional

\* std::optional<int> empty_opt (line 59) and the line written before the access
\* (line 60).
OpDeclareEmpty ==
    /\ \/ /\ op_main = "L59"
          /\ empty_opt' = Nullopt
          /\ op_main' = "L60"
          /\ UNCHANGED op_cout
       \/ /\ op_main = "L60"
          /\ op_cout' = Append(op_cout, <<"Trying to access empty_opt.value()...", "">>)
          /\ op_main' = "L61"
          /\ UNCHANGED empty_opt
    /\ UNCHANGED <<found_val, op_caught, op_cerr>>
    /\ UNCHANGED otherThanOptional

\* The handler (line 63) writes e.what() to std::cerr; execution goes on at line 68.
OpCatch ==
    /\ op_main = "L63"
    /\ op_cerr' = Append(op_cerr, <<"Caught exception", op_caught>>)
    /\ op_caught' = "none"
    /\ op_main' = "L68"
    /\ UNCHANGED <<found_val, empty_opt, op_cout>>
    /\ UNCHANGED otherThanOptional

\* operator*, operator-> and value_or (lines 68-76).
OpUnchecked ==
    /\ op_main = "L68"
    /\ op_cout' = op_cout \o
          << <<"Using operator*()", Some("Alice").val>>,
             <<"Using operator->(): length is", 5>>,
             <<"Using value_or() on an empty optional", value_or(Nullopt, 99)>>,
             <<"Using value_or() on an optional with a value", value_or(found_val, 99)>> >>
    /\ op_main' = "L80"
    /\ UNCHANGED <<found_val, empty_opt, op_caught, op_cerr>>
    /\ UNCHANGED otherThanOptional

\* Part 3 (lines 80-97): emplace, reset, and swap of a = 1, b = 2. The value() calls
\* of lines 95 and 97 are outside every try block.
OpModifiers ==
    /\ op_main = "L80"
    /\ LET opt_vec == Some([k \in 1..10 |-> 5])
           a == Some(1)
           b == Some(2)
       IN  IF ValueThrows(a) \/ ValueThrows(b)
           THEN op_main' = "terminated" /\ UNCHANGED op_cout
           ELSE /\ op_cout' = op_cout \o
                      << <<"--- Part 3: Modifiers ---", "">>,
                         <<"emplace() created a vector of size", Len(opt_vec.val)>>,
                         <<"First element is", opt_vec.val[1]>>,
                         <<"After reset(), opt_vec.has_value()", Nullopt.has>>,
                         <<"Before swap", <<a.val, b.val>> >>,
                         <<"After swap", <<b.val, a.val>> >> >>
                /\ op_main' = "L101"
    /\ UNCHANGED <<found_val, empty_opt, op_caught, op_cerr>>
    /\ UNCHANGED otherThanOptional

\* Part 4 (lines 101-115): comparisons of o1 = 10, o2 = 10, o3 = 20, o4 = nullopt.
OpCompare ==
    /\ op_main = "L101"
    /\ LET o1 == Some(10)
           o2 == Some(10)
           o3 == Some(20)
           o4 == Nullopt
       IN  op_cout' = op_cout \o
              << <<"--- Part 4: Comparison Operators ---", "">>,
                 <<"o1 == o2?", o1 = o2>>,
                 <<"o1 == o3?", o1 = o3>>,
                 <<"o1 == o4?", o1 = o4>>,
                 <<"o1 < o3?", OptionalLess(o1, o3)>>,
                 <<"o4 < o1?", OptionalLess(o4, o1)>> >>
    /\ op_main' = "L117"
    /\ UNCHANGED <<found_val, empty_opt, op_caught, op_cerr>>
    /\ UNCHANGED otherThanOptional

\* return 0 (line 117).
OpReturn ==
    /\ op_main = "L117"
    /\ op_main' = "returned"
    /\ UNCHANGED <<found_val, empty_opt, op_caught, op_cout, op_cerr>>
    /\ UNCHANGED otherThanOptional

OpNext ==
    \/ OpPart1
    \/ OpFind
    \/ OpCheck
    \/ OpValueInTry
    \/ OpDeclareEmpty
    \/ OpCatch
    \/ OpUnchecked
    \/ OpModifiers
    \/ OpCompare
    \/ OpReturn

----------------------------------------------------------------------------
(* string_view.cpp *)

\* A string_view is the sequence of the characters it views.
AccessText == <<"a", "c", "c", "e", "s", "s">>
ModifyText == <<"p", "r", "e", "f", "i", "x", " ", "a", "n", "d", " ",
                "s", "u", "f", "f", "i", "x">>
SwappedText == <<"s", "w", "a", "p", "p", "e", "d">>
SearchText == <<"T", "h", "e", " ", "q", "u", "i", "c", "k", " ", "b", "r", "o", "w", "n",
                " ", "f", "o", "x", " ", "j", "u", "m", "p", "s", " ", "o", "v", "e", "r",
                " ", "t", "h", "e", " ", "l", "a", "z", "y", " ", "d", "o", "g", ".">>

\* string_view::at(pos) throws std::out_of_range when pos >= size().
AtThrows(view, pos) == pos >= Len(view)

\* The character at(pos) and operator[] return (pos counts from 0).
CharAt(view, pos) == view[pos + 1]

\* string_view::substr(pos, n) throws std::out_of_range when pos > size(), and views
\* min(n, size() - pos) characters otherwise.
SubstrThrows(view, pos) == pos > Len(view)

substr(view, pos, n) ==
    SubSeq(view, pos + 1, pos + (IF n < Len(view) - pos THEN n ELSE Len(view) - pos))

SvInit ==
    /\ sv_main = "L10"
    /\ access_view = <<>>
    /\ modify_view = <<>>
    /\ other_view = <<>>
    /\ sv_caught = "none"
    /\ sv_cout = <<>>
    /\ sv_cerr = <<>>

\* Parts 1 and 2 (lines 10-40): construction, size(), length(), empty().
SvPart1And2 ==
    /\ \/ /\ sv_main = "L10"
          /\ sv_cout' = sv_cout \o
                << <<"--- Part 1: Constructors and Initialization ---", "">>,
                   <<"sv1 (from literal)", "A literal string.">>,
                   <<"sv2 (from std::string)", "Hello, C++17!">>,
                   <<"empty_view", "">> >>
          /\ sv_main' = "L29"
       \/ /\ sv_main = "L29"
          /\ sv_cout' = sv_cout \o
                << <<"--- Part 2: Capacity Functions ---", "">>,
                   <<"capacity_view", "capacity test">>,
                   <<"Size of capacity_view", 13>>,
                   <<"Length of capacity_view", 13>>,
                   <<"Is capacity_view empty?", "No">> >>
          /\ sv_main' = "L43"
    /\ UNCHANGED <<access_view, modify_view, other_view, sv_caught, sv_cerr>>
    /\ UNCHANGED otherThanStringView

\* std::string_view access_view = "access" (lines 43-44).
SvAccessInit ==
    /\ sv_main = "L43"
    /\ access_view' = AccessText
    /\ sv_cout' = Append(sv_cout, <<"--- Part 3: Element Access ---", "">>)
    /\ sv_main' = "L48"
    /\ UNCHANGED <<modify_view, other_view, sv_caught, sv_cerr>>
    /\ UNCHANGED otherThanStringView

\* std::cout << ... << access_view.at(2) (line 48), outside every try block: an
\* exception leaves main.
SvAt ==
    /\ sv_main = "L48"
    /\ IF AtThrows(access_view, 2)
       THEN sv_main' = "terminated" /\ UNCHANGED sv_cout
       ELSE /\ sv_cout' = Append(sv_cout,
                   <<"Character at index 2 (using at())", CharAt(access_view, 2)>>)
            /\ sv_main' = "L50"
    /\ UNCHANGED <<access_view, modify_view, other_view, sv_caught, sv_cerr>>
    /\ UNCHANGED otherThanStringView

\* The handler of the try block of lines 49-51 catches std::out_of_range.
SvHandlerCatches(x) == x = "out_of_range"

\* std::cout << access_view.at(10) (line 50) inside the try block: at() is evaluated
\* before anything is written; a thrown exception goes to the handler of line 51
\* when it catches it, else out of main.
SvAtInTry ==
    /\ sv_main = "L50"
    /\ IF AtThrows(access_view, 10)
       THEN /\ IF SvHandlerCatches("out_of_range")
               THEN sv_main' = "L52" /\ sv_caught' = "out_of_range"
               ELSE sv_main' = "terminated" /\ UNCHANGED sv_caught
            /\ UNCHANGED sv_cout
       ELSE /\ sv_cout' = Append(sv_cout, <<"access_view.at(10)", CharAt(access_view, 10)>>)
            /\ sv_main' = "L57"
            /\ UNCHANGED sv_caught
    /\ UNCHANGED <<access_view, modify_view, other_view, sv_cerr>>
    /\ UNCHANGED otherThanStringView

\* The handler (line 52) writes e.what() to std::cerr; execution goes on at line 57.
SvCatch ==
    /\ sv_main = "L52"
    /\ sv_cerr' = Append(sv_cerr, <<"Caught exception from at()", sv_caught>>)
    /\ sv_caught' = "none"
    /\ sv_main' = "L57"
    /\ UNCHANGED <<access_view, modify_view, other_view, sv_cout>>
    /\ UNCHANGED otherThanStringView

\* operator[], front(), back(), data() (lines 57-68).
SvUnchecked ==
    /\ sv_main = "L57"
    /\ sv_cout' = sv_cout \o
          << <<"Character at index 2 (using [])", CharAt(access_view, 2)>>,
             <<"First character", CharAt(access_view, 0)>>,
             <<"Last character", CharAt(access_view, Len(access_view) - 1)>>,
             <<"Using data() pointer", access_view>>,
             <<"-----------------------------------------", "">> >>
    /\ sv_main' = "L71"
    /\ UNCHANGED <<access_view, modify_view, other_view, sv_caught, sv_cerr>>
    /\ UNCHANGED otherThanStringView

\* Part 4 (lines 71-88): remove_prefix(8), remove_suffix(7), swap.
SvModifiers ==
    /\ \/ /\ sv_main = "L71"
          /\ modify_view' = ModifyText
          /\ sv_cout' = Append(sv_cout,
                <<"--- Part 4: Modifiers (non-mutating the underlying data) ---", "">>)
          /\ sv_main' = "L76"
          /\ UNCHANGED other_view
       \/ /\ sv_main = "L76"
          /\ modify_view' = SubSeq(modify_view, 8 + 1, Len(modify_view))
          /\ sv_cout' = Append(sv_cout, <<"After remove_prefix(8)", modify_view'>>)
          /\ sv_main' = "L80"
          /\ UNCHANGED other_view
       \/ /\ sv_main = "L80"
          /\ modify_view' = SubSeq(modify_view, 1, Len(modify_view) - 7)
          /\ sv_cout' = Append(sv_cout, <<"After remove_suffix(7)", modify_view'>>)
          /\ sv_main' = "L84"
          /\ UNCHANGED other_view
       \/ /\ sv_main = "L84"
          /\ modify_view' = SwappedText
          /\ other_view' = modify_view
          /\ sv_cout' = sv_cout \o
                << <<"Before swap", <<modify_view, SwappedText>> >>,
                   <<"After swap", <<modify_view', other_view'>> >>,
                   <<"-----------------------------------------", "">> >>
          /\ sv_main' = "L91"
    /\ UNCHANGED <<access_view, sv_caught, sv_cerr>>
    /\ UNCHANGED otherThanStringView

\* Part 5 (lines 91-115): substr(16, 3) and substr(0, 19) of search_view; the lines
\* written by find, starts_with, ends_with and compare are kept without their values.
SvOperations ==
    /\ sv_main = "L91"
    /\ IF SubstrThrows(SearchText, 16) \/ SubstrThrows(SearchText, 0)
       THEN sv_main' = "terminated" /\ UNCHANGED sv_cout
       ELSE /\ sv_cout' = sv_cout \o
                  << <<"--- Part 5: Operations and Searching ---", "">>,
                     <<"Substring from index 16 for 3 chars", substr(SearchText, 16, 3)>>,
                     <<"Found 'fox' at position", "">>,
                     <<"Does the view start with 'The'?", "">>,
                     <<"Does the view end with 'dog.'?", "">>,
                     <<"Comparing", substr(SearchText, 0, 19)>>,
                     <<"-----------------------------------------", "">> >>
            /\ sv_main' = "L117"
    /\ UNCHANGED <<access_view, modify_view, other_view, sv_caught, sv_cerr>>
    /\ UNCHANGED otherThanStringView

\* return 0 (line 117).
SvReturn ==
    /\ sv_main = "L117"
    /\ sv_main' = "returned"
    /\ UNCHANGED <<access_view, modify_view, other_view, sv_caught, sv_cout,
                   sv_cerr>>
    /\ UNCHANGED otherThanStringView

SvNext ==
    \/ SvPart1And2
    \/ SvAccessInit
    \/ SvAt
    \/ SvAtInTry
    \/ SvCatch
    \/ SvUnchecked
    \/ SvModifiers
    \/ SvOperations
    \/ SvReturn

----------------------------------------------------------------------------
(* algorithm.cpp, Part 4: std::sort *)

\* std::vector<int> sortVec = {8, 1, 4, 3, 7, 2, 5, 6} (line 115).
DemoSortVec == <<8, 1, 4, 3, 7, 2, 5, 6>>

\* The vectors sort is applied to: the one of the program, and every vector of at
\* most MaxSortLen elements of -1..MaxSortElem.
SortInputs ==
    {DemoSortVec} \cup UNION { [1..n -> (-1)..MaxSortElem] : n \in 0..MaxSortLen }

\* A comparison that orders the other way round.
SortGreater(a, b) == a > b

\* std::sort(first, last) compares with operator< (line 119).
SortLess(a, b) == a < b

\* libstdc++ sorts a range of at most 16 elements by insertion sort. One step moves
\* the element at position i (from 1) into the sorted range before it: to the front
\* when it is less than the first element, else leftwards past every greater element.
RECURSIVE unguarded_linear_insert(_, _, _)
unguarded_linear_insert(vec, last, val) ==
    IF SortLess(val, vec[last - 1])
    THEN unguarded_linear_insert([vec EXCEPT ![last] = vec[last - 1]], last - 1, val)
    ELSE [vec EXCEPT ![last] = val]

insertion_step(vec, i) ==
    IF SortLess(vec[i], vec[1])
    THEN <<vec[i]>> \o SubSeq(vec, 1, i - 1) \o SubSeq(vec, i + 1, Len(vec))
    ELSE unguarded_linear_insert(vec, i, vec[i])

AlInit ==
    /\ al_main = "L114"
    /\ sortVec = <<>>
    /\ sort_input = <<>>
    /\ sort_i = 0
    /\ al_cout = <<>>

\* Lines 114-115: the header line and the construction of sortVec.
AlConstruct ==
    /\ al_main = "L114"
    /\ \E v \in SortInputs :
          /\ sortVec' = v
          /\ sort_input' = v
    /\ al_cout' = Append(al_cout, <<"--- Part 4: Sorting and Related Operations ---", <<>> >>)
    /\ al_main' = "L116"
    /\ UNCHANGED <<sort_i>>
    /\ UNCHANGED otherThanAlgorithm

\* printVector(label, sortVec) (lines 10-16, called at lines 116 and 120).
AlPrintVector ==
    /\ \/ /\ al_main = "L116"
          /\ al_cout' = Append(al_cout, <<"Original", sortVec>>)
          /\ al_main' = "L119"
       \/ /\ al_main = "L120"
          /\ al_cout' = Append(al_cout, <<"After sort", sortVec>>)
          /\ al_main' = "L122"
    /\ UNCHANGED <<sortVec, sort_input, sort_i>>
    /\ UNCHANGED otherThanAlgorithm

\* std::sort(sortVec.begin(), sortVec.end()) (line 119): nothing to do for an empty
\* range, else one insertion per step from the second element on.
AlSort ==
    /\ \/ /\ al_main = "L119"
          /\ sort_i' = 2
          /\ al_main' = "L119_insert"
          /\ UNCHANGED sortVec
       \/ /\ al_main = "L119_insert"
          /\ sort_i <= Len(sortVec)
          /\ sortVec' = insertion_step(sortVec, sort_i)
          /\ sort_i' = sort_i + 1
          /\ UNCHANGED al_main
       \/ /\ al_main = "L119_insert"
          /\ sort_i > Len(sortVec)
          /\ sort_i' = 0
          /\ al_main' = "L120"
          /\ UNCHANGED sortVec
    /\ UNCHANGED <<sort_input, al_cout>>
    /\ UNCHANGED otherThanAlgorithm

AlNext ==
    \/ AlConstruct
    \/ AlPrintVector
    \/ AlSort

----------------------------------------------------------------------------
(* numeric.cpp, Part 1: std::accumulate *)

\* std::vector<int> myVec = {1, 2, 3, 4, 5} (line 21).
DemoAccVec == <<1, 2, 3, 4, 5>>

\* The vectors accumulate is applied to: the one of the program, and every vector of
\* at most MaxAccLen elements of -1..MaxAccElem.
AccInputs ==
    {DemoAccVec} \cup UNION { [1..n -> (-1)..MaxAccElem] : n \in 0..MaxAccLen }

\* An operation that forgets what was accumulated so far.
binary_op_last(op, init, x) == x

\* The operation accumulate applies: operator+ (line 26), std::multiplies<int> (line
\* 31).
binary_op(op, init, x) == IF op = "multiplies" THEN init * x ELSE init + x

NuInit ==
    /\ nu_main = "L20"
    /\ myVec = <<>>
    /\ nu_first = 0
    /\ nu_init = 0
    /\ sum = 0
    /\ product = 0
    /\ nu_cout = <<>>

\* Lines 20-21: the header line and the construction of myVec.
NuConstruct ==
    /\ nu_main = "L20"
    /\ myVec' \in AccInputs
    /\ nu_cout' = Append(nu_cout, <<"--- Part 1: Accumulation and Reduction ---", <<>> >>)
    /\ nu_main' = "L22"
    /\ UNCHANGED <<nu_first, nu_init, sum, product>>
    /\ UNCHANGED otherThanNumeric

\* printVector("Original Vector", myVec) (lines 10-16, called at line 22).
NuPrintVector ==
    /\ nu_main = "L22"
    /\ nu_cout' = Append(nu_cout, <<"Original Vector", myVec>>)
    /\ nu_main' = "L26"
    /\ UNCHANGED <<myVec, nu_first, nu_init, sum, product>>
    /\ UNCHANGED otherThanNumeric

\* The calls of std::accumulate over the whole of myVec (lines 26, 31).
\* <<at, init, operation, next statement>>
NuAccumulateTable ==
    { <<"L26", 0, "plus", "L27">>, <<"L31", 1, "multiplies", "L32">> }

\* accumulate(first, last, init[, binary_op]): for (; first != last; ++first)
\* init = binary_op(init, *first); return init. The result is assigned to sum (line
\* 26) or product (line 31).
NuAccumulate ==
    /\ \E e \in NuAccumulateTable :
          \/ /\ nu_main = e[1]
             /\ nu_init' = e[2]
             /\ nu_first' = 1
             /\ nu_main' = e[1] \o "_loop"
             /\ UNCHANGED <<sum, product>>
          \/ /\ nu_main = e[1] \o "_loop"
             /\ nu_first <= Len(myVec)
             /\ nu_init' = binary_op(e[3], nu_init, myVec[nu_first])
             /\ nu_first' = nu_first + 1
             /\ UNCHANGED <<nu_main, sum, product>>
          \/ /\ nu_main = e[1] \o "_loop"
             /\ nu_first > Len(myVec)
             /\ sum' = IF e[1] = "L26" THEN nu_init ELSE sum
             /\ product' = IF e[1] = "L31" THEN nu_init ELSE product
             /\ nu_first' = 0
             /\ nu_init' = 0
             /\ nu_main' = e[4]
    /\ UNCHANGED <<myVec, nu_cout>>
    /\ UNCHANGED otherThanNumeric

\* The lines that print sum (line 27) and product (line 32).
NuPrintResult ==
    /\ \/ /\ nu_main = "L27"
          /\ nu_cout' = Append(nu_cout, <<"accumulate: The sum of elements is", sum>>)
          /\ nu_main' = "L31"
       \/ /\ nu_main = "L32"
          /\ nu_cout' = Append(nu_cout,
                <<"accumulate (with multiplication): The product of elements is", product>>)
          /\ nu_main' = "L35"
    /\ UNCHANGED <<myVec, nu_first, nu_init, sum, product>>
    /\ UNCHANGED otherThanNumeric

NuNext ==
    \/ NuConstruct
    \/ NuPrintVector
    \/ NuAccumulate
    \/ NuPrintResult

----------------------------------------------------------------------------
(* iomanip.cpp: centerText *)

\* A std::string is the sequence of its characters. The two texts main passes (lines
\* 123, 125), both with width 20.
DemoShortText == [k \in 1..10 |-> "h"]
DemoLongText == <<"C", "e", "n", "t", "e", "r", "e", "d", " ", "T", "e", "x", "t", " ",
                  "E", "x", "a", "m", "p", "l", "e">>

\* The calls of centerText that are examined: the two of main, and every text of at
\* most MaxTextLen characters with every width of -MaxWidth..MaxWidth.
CenterInputs ==
    {<<DemoShortText, 20>>, <<DemoLongText, 20>>}
       \cup ((UNION { [1..n -> {"h", "-"}] : n \in 0..MaxTextLen })
                \X ((-MaxWidth)..MaxWidth))

\* The fill character of std::cout when centerText is called: ' ' by default, '*'
\* after demonstrate_setw_and_setfill (line 10).
FillChars == {" ", "*"}

\* text.length() >= width (line 32) converts the int width to the unsigned type of
\* length(): a negative width becomes a value above every length.
LengthAtLeast(length, w) == w >= 0 /\ length >= w

\* A division that hands back its dividend.
IntDivKeepsDividend(a, b) == a

\* int / int truncates towards zero (line 42).
IntDiv(a, b) == IF a >= 0 THEN a \div b ELSE -((-a) \div b)

\* std::cout << std::setw(w) << std::right << str: when w exceeds the length of str,
\* w - length fill characters come first; str is never cut.
Inserted(str, w, fill) ==
    IF w > Len(str) THEN [k \in 1..(w - Len(str)) |-> fill] \o str ELSE str

CtInit ==
    /\ ct_pc = "call"
    /\ text = <<>>
    /\ width = 0
    /\ padding = 0
    /\ left_padding = 0
    /\ cout_fill = " "
    /\ ct_cout = <<>>

\* A call centerText(text, width) (line 28), with std::cout in some fill state.
CtCall ==
    /\ ct_pc = "call"
    /\ \E args \in CenterInputs :
          /\ text' = args[1]
          /\ width' = args[2]
    /\ cout_fill' \in FillChars
    /\ ct_pc' = "L32"
    /\ UNCHANGED <<padding, left_padding, ct_cout>>
    /\ UNCHANGED otherThanIomanip

\* if (text.length() >= width) (line 32).
CtCompare ==
    /\ ct_pc = "L32"
    /\ ct_pc' = IF LengthAtLeast(Len(text), width) THEN "L33" ELSE "L37"
    /\ UNCHANGED <<text, width, padding, left_padding, cout_fill, ct_cout>>
    /\ UNCHANGED otherThanIomanip

\* std::cout << text (line 33).
CtPrintText ==
    /\ ct_pc = "L33"
    /\ ct_cout' = ct_cout \o Inserted(text, 0, cout_fill)
    /\ ct_pc' = "L57"
    /\ UNCHANGED <<text, width, padding, left_padding, cout_fill>>
    /\ UNCHANGED otherThanIomanip

\* int padding = width - text.length() (line 37) and int left_padding = padding / 2
\* (line 42). The difference is taken in the unsigned type and converted to int,
\* which gives the difference of the two numbers whenever that fits an int.
CtPadding ==
    /\ \/ /\ ct_pc = "L37"
          /\ padding' = width - Len(text)
          /\ ct_pc' = "L42"
          /\ UNCHANGED left_padding
       \/ /\ ct_pc = "L42"
          /\ left_padding' = IntDiv(padding, 2)
          /\ ct_pc' = "L49"
          /\ UNCHANGED padding
    /\ UNCHANGED <<text, width, cout_fill, ct_cout>>
    /\ UNCHANGED otherThanIomanip

\* std::cout << std::setw(left_padding + text.length()) << std::right << text (line
\* 49) and std::cout << std::setw(padding - left_padding) << "" (line 55).
CtPrintPadded ==
    /\ \/ /\ ct_pc = "L49"
          /\ ct_cout' = ct_cout \o Inserted(text, left_padding + Len(text), cout_fill)
          /\ ct_pc' = "L55"
       \/ /\ ct_pc = "L55"
          /\ ct_cout' = ct_cout \o Inserted(<<>>, padding - left_padding, cout_fill)
          /\ ct_pc' = "L57"
    /\ UNCHANGED <<text, width, padding, left_padding, cout_fill>>
    /\ UNCHANGED otherThanIomanip

CtNext ==
    \/ CtCall
    \/ CtCompare
    \/ CtPrintText
    \/ CtPadding
    \/ CtPrintPadded

----------------------------------------------------------------------------
(* fstream.cpp *)

\* The files the program names. A file is [exists, data]; data is the sequence of the
\* units the examples write and read back (lines, characters or numbers).
ScratchFiles == {"output.txt", "data.txt", "binary.dat", "chars.txt", "lines.txt",
                 "seek.txt", "numbers.txt", "flush.txt"}
FileNames == ScratchFiles \cup {"input.txt"}
NoFile == [exists |-> FALSE, data |-> <<>>]
NewFile == [exists |-> TRUE, data |-> <<>>]

\* What a file left behind by something else holds.
StaleFile == [exists |-> TRUE, data |-> <<"stale">>]

\* The directories the program may be started in: input.txt missing or holding up to
\* MaxInputLines lines, every scratch file missing or left behind. The directory is
\* writable.
InputFiles ==
    {NoFile} \cup { [exists |-> TRUE, data |-> [k \in 1..n |-> "input line"]] :
                      n \in 0..MaxInputLines }
StartDirs ==
    { [f \in FileNames |-> IF f = "input.txt" THEN i
                           ELSE IF f \in left THEN StaleFile ELSE NoFile] :
         i \in InputFiles, left \in SUBSET ScratchFiles }

\* A stream object that is not open.
ClosedStream == [file |-> "none", mode |-> "none", is_open |-> FALSE, pos |-> 0,
                 eof |-> FALSE, fail |-> FALSE]

FsInit ==
    /\ fs_main = "start"
    /\ files = [f \in FileNames |-> NoFile]
    /\ start_dir = [f \in FileNames |-> NoFile]
    /\ stream = ClosedStream
    /\ fs_closed = {}
    /\ fs_cout = <<>>
    /\ fs_cerr = <<>>

\* The program is started in some directory; main calls welcome_message (lines 5-11,
\* 227) and then example_ofstream (line 228).
FsStart ==
    /\ fs_main = "start"
    /\ \E d \in StartDirs :
          /\ files' = d
          /\ start_dir' = d
    /\ fs_cout' = fs_cout \o << <<"****************", "">>,
                                <<"* #include <fstream> *", "">>,
                                <<"*** fstream  ***", "">>,
                                <<"****************", "">> >>
    /\ fs_main' = "L41"
    /\ UNCHANGED <<stream, fs_closed, fs_cerr>>
    /\ UNCHANGED otherThanFstream

\* Constructors and open() calls. Mode "out" (std::ofstream) and "trunc" (in | out |
\* trunc) create the file or empty it; "in" (std::ifstream) and "inout" (in | out)
\* need the file to exist. <<at, file, mode, next statement>>
FsOpenTable ==
    { <<"L41", "output.txt", "out", "L42">>,    <<"L22", "input.txt", "in", "L23">>,
      <<"L60", "data.txt", "trunc", "L61">>,    <<"L79", "input.txt", "in", "L80">>,
      <<"L93", "binary.dat", "out", "L95">>,    <<"L98", "binary.dat", "in", "L100">>,
      <<"L111", "chars.txt", "out", "L112">>,   <<"L116", "chars.txt", "in", "L118">>,
      <<"L130", "lines.txt", "out", "L131">>,   <<"L134", "lines.txt", "in", "L136">>,
      <<"L149", "seek.txt", "out", "L150">>,    <<"L153", "seek.txt", "inout", "L154">>,
      <<"L179", "lines.txt", "in", "L181">>,    <<"L197", "numbers.txt", "out", "L198">>,
      <<"L201", "numbers.txt", "in", "L204">>,  <<"L215", "flush.txt", "out", "L216">> }

\* An open for writing that leaves what the file held.
KeptOnOpen(file, mode) ==
    IF mode \in {"out", "trunc"} /\ ~files[file].exists THEN NewFile ELSE files[file]

\* What the file holds once it is opened with the mode.
ContentOnOpen(file, mode) == IF mode \in {"out", "trunc"} THEN NewFile ELSE files[file]

FsOpen ==
    /\ \E e \in FsOpenTable :
          /\ fs_main = e[1]
          /\ files' = [files EXCEPT ![e[2]] = ContentOnOpen(e[2], e[3])]
          /\ stream' = [ClosedStream EXCEPT !.file = e[2],
                                            !.mode = e[3],
                                            !.is_open = files'[e[2]].exists,
                                            !.fail = ~files'[e[2]].exists]
          /\ fs_main' = e[4]
    /\ UNCHANGED <<start_dir, fs_closed, fs_cout, fs_cerr>>
    /\ UNCHANGED otherThanFstream

\* An is_open() that answers true for every stream.
IsOpenAlways(s) == TRUE

\* std::basic_fstream::is_open().
IsOpen(s) == s.is_open

\* if (stream.is_open()) (lines 23, 42, 61, 80). <<at, then, else>>
FsIfOpenTable ==
    { <<"L42", "L43", "L49">>, <<"L23", "L25", "L30">>, <<"L61", "L62", "L79">>,
      <<"L80", "L81", "L93">> }

FsIfOpen ==
    /\ \E e \in FsIfOpenTable :
          /\ fs_main = e[1]
          /\ fs_main' = IF IsOpen(stream) THEN e[2] ELSE e[3]
    /\ UNCHANGED <<files, start_dir, stream, fs_closed, fs_cout, fs_cerr>>
    /\ UNCHANGED otherThanFstream

\* Output to the stream: operator<<, put, write. <<at, units written, next statement>>
FsWriteTable ==
    { <<"L43", <<"Hello, file!", "ARaw bytes">>, "L47">>,
      <<"L62", <<"Line 1", "Line 2">>, "L63">>,
      <<"L95", <<"12345">>, "L96">>,
      <<"L112", <<"X", "\n">>, "L114">>,
      <<"L131", <<"First line", "Second line">>, "L132">>,
      <<"L150", <<"a", "b", "c", "d", "e", "f">>, "L151">>,
      <<"L198", <<"42", "3.14">>, "L199">>,
      <<"L216", <<"This will be flushed.">>, "L218">> }

\* Output on a stream that is not open, or has failed, writes nothing; else the
\* units go to the end of the file and the position of the stream follows.
FsWrite ==
    /\ \E e \in FsWriteTable :
          /\ fs_main = e[1]
          /\ IF stream.is_open /\ ~stream.fail
             THEN /\ files' = [files EXCEPT ![stream.file].data = @ \o e[2]]
                  /\ stream' = [stream EXCEPT !.pos = Len(files'[stream.file].data)]
             ELSE UNCHANGED <<files, stream>>
          /\ fs_main' = e[3]
    /\ UNCHANGED <<start_dir, fs_closed, fs_cout, fs_cerr>>
    /\ UNCHANGED otherThanFstream

\* close() (lines 28, 47, 68, ...). <<at, next statement>>
FsCloseTable ==
    { <<"L47", "L22">>, <<"L28", "L60">>, <<"L68", "L79">>, <<"L82", "L83">>,
      <<"L96", "L98">>, <<"L102", "L111">>, <<"L114", "L116">>, <<"L121", "L130">>,
      <<"L132", "L134">>, <<"L139", "L149">>, <<"L151", "L153">>, <<"L166", "L179">>,
      <<"L188", "L197">>, <<"L199", "L201">>, <<"L206", "L215">>, <<"L218", "L239">> }

FsClose ==
    /\ \E e \in FsCloseTable :
          /\ fs_main = e[1]
          /\ fs_closed' = IF stream.is_open /\ stream.mode # "in"
                          THEN fs_closed \cup {stream.file}
                          ELSE fs_closed
          /\ stream' = ClosedStream
          /\ fs_main' = e[2]
    /\ UNCHANGED <<files, start_dir, fs_cout, fs_cerr>>
    /\ UNCHANGED otherThanFstream

\* An input operation (getline, get, read, >>) succeeds when the stream is open, has
\* not failed and a unit is left; else it sets failbit, and eofbit at the end.
CanRead(s) == s.is_open /\ ~s.fail /\ s.pos < Len(files[s.file].data)

AfterRead(s) ==
    IF CanRead(s) THEN [s EXCEPT !.pos = @ + 1]
    ELSE [s EXCEPT !.fail = TRUE, !.eof = s.eof \/ (s.is_open /\ ~s.fail)]

\* while (std::getline(in, line)) / while (in.get(ch)) with the line its body writes.
\* <<at, text written, statement after the loop>>
FsLoopTable ==
    { <<"L25", "Read line", "L28">>, <<"L65", "fstream read", "L68">>,
      <<"L118", "Character read", "L121">>, <<"L136", "Line", "L139">>,
      <<"L181", "", "L184">> }

FsReadLoop ==
    /\ \E e \in FsLoopTable :
          /\ fs_main = e[1]
          /\ stream' = AfterRead(stream)
          /\ IF CanRead(stream)
             THEN /\ fs_cout' = IF e[2] = "" THEN fs_cout
                                ELSE Append(fs_cout,
                                        <<e[2], files[stream.file].data[stream.pos + 1]>>)
                  /\ UNCHANGED fs_main
             ELSE /\ fs_main' = e[3]
                  /\ UNCHANGED fs_cout
    /\ UNCHANGED <<files, start_dir, fs_closed, fs_cerr>>
    /\ UNCHANGED otherThanFstream

\* seekg(pos) (lines 63, 154, 162): clears eofbit and moves the position, unless the
\* stream has failed. <<at, position, next statement>>
FsSeekTable == { <<"L63", 0, "L65">>, <<"L154", 2, "L156">>, <<"L162", 0, "L164">> }

FsSeek ==
    /\ \E e \in FsSeekTable :
          /\ fs_main = e[1]
          /\ stream' = IF stream.is_open /\ ~stream.fail
                       THEN [stream EXCEPT !.pos = e[2], !.eof = FALSE]
                       ELSE [stream EXCEPT !.fail = TRUE]
          /\ fs_main' = e[3]
    /\ UNCHANGED <<files, start_dir, fs_closed, fs_cout, fs_cerr>>
    /\ UNCHANGED otherThanFstream

\* One input statement and the line that prints what it read: in.read into recovered,
\* which starts as 0 (lines 99-101), file.get(ch) (lines 155-157), in >> i >> d into
\* uninitialized locals (lines 202-205).
\* <<at, text written, units read, value of the locals when nothing is read, next>>
FsReadTable ==
    { <<"L100", "Recovered number", 1, {"0"}, "L102">>,
      <<"L156", "Character at position 2", 1, {"X", "a", "?"}, "L158">>,
      <<"L204", "Read numbers", 2, {"0", "42", "?"}, "L206">> }

FsRead ==
    /\ \E e \in FsReadTable :
          /\ fs_main = e[1]
          /\ LET data == files[stream.file].data
                 enough == stream.is_open /\ ~stream.fail /\ stream.pos + e[3] <= Len(data)
             IN  /\ \E indeterminate \in e[4] :
                       fs_cout' = Append(fs_cout,
                          <<e[2], IF enough
                                  THEN SubSeq(data, stream.pos + 1, stream.pos + e[3])
                                  ELSE <<indeterminate>> >>)
                 /\ stream' = IF enough THEN [stream EXCEPT !.pos = @ + e[3]]
                              ELSE [stream EXCEPT !.fail = TRUE]
          /\ fs_main' = e[5]
    /\ UNCHANGED <<files, start_dir, fs_closed, fs_cerr>>
    /\ UNCHANGED otherThanFstream

\* The rest of example_seek_tell: tellg() (line 158), seekp(4) and put('Z') (lines
\* 160-161), getline of the whole line and its print (lines 164-165).
FsSeekTell ==
    /\ \/ /\ fs_main = "L158"
          /\ fs_cout' = Append(fs_cout, <<"Current get pointer",
                                          IF stream.fail THEN -1 ELSE stream.pos>>)
          /\ fs_main' = "L160"
          /\ UNCHANGED <<files, stream>>
       \/ /\ fs_main = "L160"
          /\ IF stream.is_open /\ ~stream.fail /\ 4 < Len(files[stream.file].data)
             THEN /\ files' = [files EXCEPT ![stream.file].data[4 + 1] = "Z"]
                  /\ stream' = [stream EXCEPT !.pos = 4 + 1]
             ELSE UNCHANGED <<files, stream>>
          /\ fs_main' = "L162"
          /\ UNCHANGED fs_cout
       \/ /\ fs_main = "L164"
          /\ fs_cout' = Append(fs_cout,
                <<"Modified line",
                  IF CanRead(stream)
                  THEN SubSeq(files[stream.file].data, stream.pos + 1,
                              Len(files[stream.file].data))
                  ELSE <<>> >>)
          /\ stream' = IF CanRead(stream)
                       THEN [stream EXCEPT !.pos = Len(files[stream.file].data),
                                           !.eof = TRUE]
                       ELSE AfterRead(stream)
          /\ fs_main' = "L166"
          /\ UNCHANGED files
    /\ UNCHANGED <<start_dir, fs_closed, fs_cerr>>
    /\ UNCHANGED otherThanFstream

\* std::cout << eof() << good() << bad() << fail() (lines 184-187).
FsState ==
    /\ fs_main = "L184"
    /\ fs_cout' = Append(fs_cout,
          <<"EOF, Good, Bad, Fail",
            <<stream.eof, ~stream.eof /\ ~stream.fail, FALSE, stream.fail>> >>)
    /\ fs_main' = "L188"
    /\ UNCHANGED <<files, start_dir, stream, fs_closed, fs_cerr>>
    /\ UNCHANGED otherThanFstream

\* Statements that only write a line. <<at, stream, text, next statement>>
FsPrintTable ==
    { <<"L49", "cerr", "Could not open output.txt", "L22">>,
      <<"L30", "cerr", "Could not open input.txt", "L60">>,
      <<"L81", "cout", "File opened successfully!", "L82">>,
      <<"L83", "cout", "File closed.", "L93">> }

FsPrint ==
    /\ \E e \in FsPrintTable :
          /\ fs_main = e[1]
          /\ fs_cout' = IF e[2] = "cout" THEN Append(fs_cout, <<e[3], "">>) ELSE fs_cout
          /\ fs_cerr' = IF e[2] = "cerr" THEN Append(fs_cerr, <<e[3], "">>) ELSE fs_cerr
          /\ fs_main' = e[4]
    /\ UNCHANGED <<files, start_dir, stream, fs_closed>>
    /\ UNCHANGED otherThanFstream

\* return 0 (line 239).
FsReturn ==
    /\ fs_main = "L239"
    /\ fs_main' = "returned"
    /\ UNCHANGED <<files, start_dir, stream, fs_closed, fs_cout, fs_cerr>>
    /\ UNCHANGED otherThanFstream

FsNext ==
    \/ FsStart
    \/ FsOpen
    \/ FsIfOpen
    \/ FsWrite
    \/ FsClose
    \/ FsReadLoop
    \/ FsSeek
    \/ FsRead
    \/ FsSeekTell
    \/ FsState
    \/ FsPrint
    \/ FsReturn

----------------------------------------------------------------------------
(* Specifications: one per program *)

Init == MxInit /\ ThInit /\ FuInit /\ MeInit /\ OpInit /\ SvInit /\ AlInit /\ NuInit /\
        CtInit /\ FsInit

SpecMutex == Init /\ [][MxNext]_vars

\* Some runnable thread of mutex.cpp is always scheduled.
FairSpecMutex == SpecMutex /\ WF_vars(MxNext)

SpecThread == Init /\ [][ThNext]_vars

SpecFuture == Init /\ [][FuNext]_vars

SpecMemory == Init /\ [][MeNext]_vars



\* optional.cpp and string_view.cpp, each a process of its own, side by side.
SpecAccess == Init /\ [][OpNext \/ SvNext]_vars

SpecSort == Init /\ [][AlNext]_vars

SpecAccumulate == Init /\ [][NuNext]_vars

SpecCenterText == Init /\ [][CtNext]_vars

SpecFstream == Init /\ [][FsNext]_vars

----------------------------------------------------------------------------
(* Claims about mutex.cpp *)

\* A thread is between the construction and the destruction of its lock_guard.
InCritical(t) == mx_thr[t] \in {"L67", "L67_store", "L68"}

\* C1: two threads running increment_with_lock_guard from shared_counter = 0 leave
\* shared_counter at twice the iteration count when main reads it after both joins
\* (line 75), and the two threads are never both between acquire and release.
C1_LockGuardCounter ==
    /\ mx_main = "L75" => shared_counter = 2 * LoopCount
    /\ ~(InCritical("t_safe1") /\ InCritical("t_safe2"))

\* Main is about to print the final value, both threads joined.
C1_Witness ==
    /\ mx_main = "L75"
    /\ mx_thr["t_safe1"] = "joined" /\ mx_thr["t_safe2"] = "joined"
    /\ shared_counter = 2 * LoopCount

\* A thread has returned from std::call_once.
PastCallOnce(t) == mx_thr[t] \in {"L154", "done", "joined"}

\* C2: whatever the interleaving of t_once1 and t_once2, expensive_initialization is
\* entered at most once, and exactly once by the time any caller has returned from
\* call_once (so also when main returns).
C2_CallOnceExactlyOnce ==
    /\ init_runs \in {0, 1}
    /\ \A t \in OnceThreads : PastCallOnce(t) => init_runs = 1
    /\ mx_main = "returned" => init_runs = 1

\* Both threads called call_once while it had not completed: one runs the
\* initialization, the other waits at line 153.
C2_Witness ==
    \E t, u \in OnceThreads :
        /\ t # u
        /\ mx_thr[t] = "L41"
        /\ mx_thr[u] = "L153"
        /\ init_runs = 1

WriterInside == mx_thr["writer"] \in {"L33", "L34"}
ReaderInside(t) == mx_thr[t] = "L26"

\* C3: while the writer is inside write_data holding mtx, no thread is inside
\* read_data (there is one writer thread, so no other is inside write_data).
C3_WriterExcludesReaders ==
    WriterInside => \A t \in Readers : ~ReaderInside(t)

\* Two readers are inside read_data at the same time.
C3_Witness ==
    \E t, u \in Readers : t # u /\ ReaderInside(t) /\ ReaderInside(u)

\* Thread t owns exactly the mutex k and is blocked in lock() on the other one.
HoldsAndWaits(t, k) ==
    /\ MutexAt(k) = t
    /\ MutexAt(1 - k) \notin {t, Free}
    /\ mx_thr[t] = "L106"
    /\ lock_first[t] = 1 - k

\* Each of the two threads holds one mutex and waits for the other.
ScopedDeadlock ==
    \E k \in {0, 1} :
        HoldsAndWaits("t_safe_lock", k) /\ HoldsAndWaits("t_safe_lock2", 1 - k)

Part3Joined ==
    mx_thr["t_safe_lock"] = "joined" /\ mx_thr["t_safe_lock2"] = "joined"

\* C4: the two threads running safe_locking never reach a state in which each holds
\* one mutex and waits for the other, and when some runnable thread is always
\* scheduled both acquire m1 and m2, release them and are joined.
C4_ScopedLockNoDeadlock == []~ScopedDeadlock /\ <>Part3Joined

\* Contention: a thread whose try_lock failed has backed off and waits for m2, which
\* the other thread still owns.
C4_Witness ==
    \E t \in ScopedThreads :
        mx_thr[t] = "L106" /\ lock_first[t] = 1 /\ m2 \notin {t, Free}

----------------------------------------------------------------------------
(* Claims about thread.cpp *)

\* The line <<label, value>> has been written to std::cout.
Printed(label, value) ==
    \E k \in 1..Len(th_cout) : th_cout[k][1] = label /\ th_cout[k][2] = value

\* C5: 'Worker thread 101 finished.' is written before 'Worker thread t1 has been
\* joined'; t1 is joinable from its construction to the join (and is printed so), and
\* not joinable after it (and is printed so).
C5_JoinWaitsForWorker ==
    /\ Printed("Worker thread t1 has been joined", "")
          => Printed("Worker thread finished", 101)
    /\ th_main \in {"L35", "L36", "L39", "L43", "L44"} => th_joinable["t1"]
    /\ th_thr["t1"] = "joined" => ~th_joinable["t1"]
    /\ ~Printed("Is t1 joinable?", FALSE)
    /\ ~Printed("Is t1 joinable after join?", TRUE)

\* Part 1 has run to its end.
C5_Witness ==
    /\ th_main = "L51"
    /\ Printed("Is t1 joinable?", TRUE)
    /\ Printed("Worker thread t1 has been joined", "")
    /\ Printed("Is t1 joinable after join?", FALSE)

PoolJoinedAndFinished ==
    /\ Len(thread_pool) = num_threads
    /\ \A k \in 1..Len(thread_pool) :
          /\ th_thr[thread_pool[k]] = "joined"
          /\ ~th_joinable[thread_pool[k]]
          /\ Printed("Worker thread finished", k - 1)

\* C6: once 'All threads in the pool have been joined.' is printed, and when main
\* returns, thread_pool holds num_threads threads, each joined and each having printed
\* its 'finished' line, whatever hardware_concurrency() returned; and main is never
\* stuck: until it has returned some step of the program can be taken (with
\* num_threads = 0 too, where the pool is empty).
C6_PoolJoinedBeforeReturn ==
    /\ Printed("All threads in the pool have been joined", "") => PoolJoinedAndFinished
    /\ th_main \in {"L88", "L90", "returned"} => PoolJoinedAndFinished
    /\ th_main # "returned" => ENABLED ThNext

\* Main has returned after joining a pool of at least two threads.
C6_Witness ==
    /\ th_main = "returned"
    /\ num_threads >= 2
    /\ Len(thread_pool) = num_threads

----------------------------------------------------------------------------
(* Claims about future.cpp *)

\* The line <<label, value>> has been written to std::cout by future.cpp.
FuPrinted(label, value) ==
    \E k \in 1..Len(fu_cout) : fu_cout[k][1] = label /\ fu_cout[k][2] = value

\* The values printed with a label.
FuValuesPrinted(label) ==
    {fu_cout[k][2] : k \in {j \in 1..Len(fu_cout) : fu_cout[j][1] = label}}

\* promise_future.get() (line 88) has returned.
PromiseGetReturned ==
    shared_state["promise_future"].status # "none" /\ ~valid["promise_future"]

\* The producer is past p.set_value(42) (line 81).
ProducerPastSetValue == fu_thr["producer_thread"] \in {"L82", "L83", "done", "joined"}

\* C7: promise_future.get() returns only after the producer has called
\* p.set_value(42), and returns 42 (which is what main prints); while the producer
\* runs, the shared state belongs to its parameter p and no longer to main's promise;
\* the shared state is satisfied at most once, and exactly once when get() has
\* returned.
C7_PromiseGetAfterSetValue ==
    /\ PromiseGetReturned =>
          /\ ProducerPastSetValue
          /\ fu_local["promise_result"] = 42
          /\ shared_state["promise_future"].sets = 1
    /\ FuValuesPrinted("Result from promise") \subseteq {42}
    /\ fu_thr["producer_thread"] \in {"L78", "L81", "L82", "L83"} =>
          has_state["producer_p"] /\ ~has_state["promise"]
    /\ fu_thr["producer_thread"] \in {"done", "joined"} => ~has_state["promise"]
    /\ shared_state["promise_future"].sets <= 1
    /\ fu_main = "returned" => shared_state["promise_future"].sets = 1

\* get() has returned 42 while the producer has not yet printed that it set it.
C7_Witness ==
    /\ PromiseGetReturned
    /\ fu_local["promise_result"] = 42
    /\ fu_thr["producer_thread"] = "L82"

\* C8: the std::runtime_error of calculate_with_error is stored in the shared state
\* by set_exception and leaves neither the producer thread nor main (std::terminate
\* is never called); future_with_error.get() rethrows it into the handler of line
\* 108, which prints it; main reaches Part 4 only with exception_thread joined, and
\* is never stuck on the way.
C8_ExceptionThroughPromise ==
    /\ fu_main # "terminated"
    /\ fu_thr["exception_thread"] \in {"L103", "done", "joined"} =>
          /\ shared_state["future_with_error"].status = "exception"
          /\ shared_state["future_with_error"].value = "runtime_error"
          /\ in_flight["exception_thread"] = "none"
    /\ fu_main = "L109" =>
          /\ in_flight["main"] = "runtime_error"
          /\ fu_thr["exception_thread"] \in {"L103", "done"}
    /\ fu_main \in {"L111", "L114"} =>
          FuPrinted("Caught expected exception from promise", "runtime_error")
    /\ fu_main = "L114" => fu_thr["exception_thread"] = "joined"
    /\ fu_main # "returned" => ENABLED FuNext

\* Main starts Part 4: the exception was caught and the thread joined.
C8_Witness ==
    /\ fu_main = "L114"
    /\ fu_thr["exception_thread"] = "joined"
    /\ FuPrinted("Caught expected exception from promise", "runtime_error")

\* A consumer has returned from shared_future.get() (line 146).
ConsumerPastGet(c) == fu_thr[c] \in {"L147", "done", "joined"}

AfterShare ==
    fu_main \in {"L150", "L151", "L153", "L154", "L158", "L160", "L162", "returned"}

\* C9: calculate_sum(1000, 2000) is entered at most once, and exactly once when a
\* consumer has its result; every consumer gets (and prints) 3000, under either launch
\* policy; after share() original_future is not valid and shared_future is, which is
\* what lines 158 and 160 print.
C9_SharedFutureOneResult ==
    /\ shared_state["original_future"].runs <= 1
    /\ \A c \in Consumers : ConsumerPastGet(c) =>
          /\ fu_local[c] = 3000
          /\ shared_state["original_future"].runs = 1
    /\ FuValuesPrinted("Consumer received result") \subseteq {<<1, 3000>>, <<2, 3000>>}
    /\ AfterShare => ~valid["original_future"] /\ valid["shared_future"]
    /\ FuValuesPrinted("Is original_future valid?") \subseteq {FALSE}
    /\ FuValuesPrinted("Is shared_future valid?") \subseteq {TRUE}

\* The task was deferred, both consumers have printed 3000 and main has printed the
\* two valid() lines.
C9_Witness ==
    /\ shared_state["original_future"].launch = "deferred"
    /\ FuPrinted("Consumer received result", <<1, 3000>>)
    /\ FuPrinted("Consumer received result", <<2, 3000>>)
    /\ FuPrinted("Is shared_future valid?", TRUE)


----------------------------------------------------------------------------
(* Claims about memory.cpp *)

MePrinted(label, value) ==
    \E k \in 1..Len(me_cout) : me_cout[k][1] = label /\ me_cout[k][2] = value

\* The use counts written by lines 63 and 64.
MeUseCountsPrinted ==
    { me_cout[k][2] : k \in { j \in 1..Len(me_cout) :
          me_cout[j][1] \in {"shared_res1 use count", "shared_res2 use count"} } }

\* How many 'Resource destroyed' lines name r.
DestroyedLines(r) ==
    Cardinality({ k \in 1..Len(me_cout) : me_cout[k] = DestroyedLine(r) })

\* main is past the block of example 1 (lines 45-48).
PastUniqueBlock == me_main \notin {"L38", "L42", "L46", "L47", "L48"}

\* main is past the block of example 2 (lines 57-66).
PastSharedBlock ==
    /\ PastUniqueBlock
    /\ me_main \notin {"L49", "L55", "L58", "L61", "L63", "L64", "L66", "L66_res1"}

\* C10: in example 2, while shared_res1 and shared_res2 both exist each reports a use
\* count of 2; the Resource 'shared_resource' stays alive as long as one of the two
\* exists, is destroyed when the last of them is destroyed, exactly once, and its
\* 'destroyed' line is written before 'shared_ptrs have gone out of scope.'. In
\* example 1 the Resource of the unique_ptr is alive inside the block and destroyed
\* exactly once at the end of the block.
C10_SharedAndUniqueLifetime ==
    /\ (shared_res1 # Null /\ shared_res2 # Null)
          => /\ shared_res1 = "shared_resource"
             /\ shared_res2 = "shared_resource"
             /\ use_count["shared_resource"] = 2
    /\ MeUseCountsPrinted \subseteq {2}
    /\ (shared_res1 # Null \/ shared_res2 # Null)
          => alive["shared_resource"] /\ dtor_calls["shared_resource"] = 0
    /\ dtor_calls["shared_resource"] = DestroyedLines("shared_resource")
    /\ PastSharedBlock
          => /\ dtor_calls["shared_resource"] = 1
             /\ ~alive["shared_resource"]
             /\ use_count["shared_resource"] = 0
    /\ ~PastSharedBlock
          => ~MePrinted("shared_ptrs have gone out of scope.", "")
    /\ \A k \in 1..Len(me_cout) :
          me_cout[k] = <<"shared_ptrs have gone out of scope.", "">>
             => \E j \in 1..(k - 1) : me_cout[j] = DestroyedLine("shared_resource")
    /\ unique_res # Null => alive["unique_resource"] /\ dtor_calls["unique_resource"] = 0
    /\ dtor_calls["unique_resource"] = DestroyedLines("unique_resource")
    /\ PastUniqueBlock
          => /\ dtor_calls["unique_resource"] = 1
             /\ ~alive["unique_resource"]
    /\ \A k \in 1..Len(me_cout) :
          me_cout[k] = <<"unique_ptr has gone out of scope.", "">>
             => \E j \in 1..(k - 1) : me_cout[j] = DestroyedLine("unique_resource")

\* Both examples have run: both use counts and both 'gone out of scope' lines are
\* written, and each Resource was destroyed.
C10_Witness ==
    /\ MePrinted("shared_res1 use count", 2)
    /\ MePrinted("shared_res2 use count", 2)
    /\ MePrinted("unique_ptr has gone out of scope.", "")
    /\ MePrinted("shared_ptrs have gone out of scope.", "")
    /\ dtor_calls["shared_resource"] = 1
    /\ dtor_calls["unique_resource"] = 1


\* main is past the inner block of example 3 (lines 77-89).
PastWeakBlock ==
    /\ PastSharedBlock
    /\ me_main \notin {"L68", "L74", "L78", "L79", "L83", "L84", "L85", "L87", "L88"}

\* main is past the second weak_ptr.lock() and its if statement (lines 93-97).
PastSecondLock == PastWeakBlock /\ me_main \notin {"L90", "L93", "L94", "L95", "L96"}

NotPrintedLine ==
    <<"(This should not be printed) weak_ptr is locked, object still alive.", "">>

\* C11: in example 3, once the inner block has ended strong_ptr is gone and the
\* Resource 'weak_resource' is destroyed, so the weak_ptr is expired: the second
\* weak_ptr.lock() returns an empty pointer, the '(This should not be printed)'
\* branch is never executed, and 'weak_ptr is expired, object no longer exists.' is
\* printed.
C11_WeakPtrExpiredAfterBlock ==
    /\ (PastWeakBlock /\ me_main # "returned")
          => /\ ~alive["weak_resource"]
             /\ dtor_calls["weak_resource"] = 1
             /\ Expired(weak_ptr)
    /\ me_main \notin {"L94", "L95"}
    /\ \A k \in 1..Len(me_cout) : me_cout[k] # NotPrintedLine
    /\ PastSecondLock => MePrinted("weak_ptr is expired, object no longer exists.", "")

\* What the program does instead: the second lock() succeeded, the line that should
\* not be printed is printed while the Resource is alive and strong_ptr owns it.
C11_Witness ==
    /\ me_main = "L95"
    /\ me_cout[Len(me_cout)] = NotPrintedLine
    /\ locked_ptr = "weak_resource"
    /\ strong_ptr = "weak_resource"
    /\ alive["weak_resource"]
    /\ dtor_calls["weak_resource"] = 0


----------------------------------------------------------------------------
(* Claims about optional.cpp and string_view.cpp *)

\* main of optional.cpp is past the try statement of lines 56-64.
OpPastTry == op_main \in {"L68", "L80", "L101", "L117", "returned"}

\* main of string_view.cpp is past the try statement of lines 49-53.
SvPastTry == sv_main \in {"L57", "L71", "L76", "L80", "L84", "L91", "L117", "returned"}

\* C12: empty_opt.value() on the empty optional raises std::bad_optional_access and
\* access_view.at(10) on the 6-character view raises std::out_of_range; each is caught
\* by the handler of its try block, the rest of the failing statement is skipped (its
\* value is never written), execution resumes after the handler and goes on to the end
\* of main, and no exception escapes main.
C12_FailingAccessCaught ==
    /\ op_main # "terminated"
    /\ sv_main # "terminated"
    /\ op_main = "L63" => op_caught = "bad_optional_access" /\ ~empty_opt.has
    /\ sv_main = "L52" => sv_caught = "out_of_range" /\ Len(access_view) = 6
    /\ \A k \in 1..Len(op_cout) : op_cout[k][1] # "empty_opt.value()"
    /\ \A k \in 1..Len(sv_cout) : sv_cout[k][1] # "access_view.at(10)"
    /\ OpPastTry
          => /\ op_cerr = << <<"Caught exception", "bad_optional_access">> >>
             /\ \E k \in 1..Len(op_cout) : op_cout[k] = <<"Using value()", 8>>
             /\ \E k \in 1..Len(op_cout) :
                   op_cout[k][1] = "Trying to access empty_opt.value()..."
    /\ ~OpPastTry => op_cerr = <<>>
    /\ SvPastTry => sv_cerr = << <<"Caught exception from at()", "out_of_range">> >>
    /\ ~SvPastTry => sv_cerr = <<>>
    /\ op_main = "returned"
          => \E k \in 1..Len(op_cout) : op_cout[k] = <<"Using operator*()", "Alice">>
    /\ sv_main = "returned"
          => \E k \in 1..Len(sv_cout) : sv_cout[k] = <<"Character at index 2 (using [])", "c">>
    /\ op_main # "returned" => ENABLED OpNext
    /\ sv_main # "returned" => ENABLED SvNext

\* Both programs have returned after handling their exception.
C12_Witness ==
    /\ op_main = "returned"
    /\ sv_main = "returned"
    /\ op_cerr = << <<"Caught exception", "bad_optional_access">> >>
    /\ sv_cerr = << <<"Caught exception from at()", "out_of_range">> >>


----------------------------------------------------------------------------
(* Claims about algorithm.cpp *)

\* How many elements of vec equal v.
CountOf(vec, v) == Cardinality({ k \in 1..Len(vec) : vec[k] = v })

Ascending(vec) == \A k \in 1..(Len(vec) - 1) : vec[k] <= vec[k + 1]

PermutationOf(vec, other) ==
    /\ Len(vec) = Len(other)
    /\ \A k \in 1..Len(other) : CountOf(vec, other[k]) = CountOf(other, other[k])

\* C13: after std::sort(begin, end) over the whole vector every element is <= its
\* successor and the vector is a permutation of what it held before, for every input
\* vector; the vector of the program, {8,1,4,3,7,2,5,6}, becomes {1,2,3,4,5,6,7,8}.
C13_SortAscending ==
    al_main \in {"L120", "L122"}
       => /\ Ascending(sortVec)
          /\ PermutationOf(sortVec, sort_input)
          /\ sort_input = DemoSortVec => sortVec = <<1, 2, 3, 4, 5, 6, 7, 8>>

\* The vector of the program has been sorted and printed.
C13_Witness ==
    /\ al_main = "L122"
    /\ sort_input = DemoSortVec
    /\ al_cout[Len(al_cout)] = <<"After sort", <<1, 2, 3, 4, 5, 6, 7, 8>> >>


----------------------------------------------------------------------------
(* Claims about numeric.cpp *)

\* The sum and the product of the elements of a vector, from the last element back.
RECURSIVE SumOf(_)
SumOf(vec) == IF vec = <<>> THEN 0 ELSE SumOf(SubSeq(vec, 1, Len(vec) - 1)) + vec[Len(vec)]

RECURSIVE ProductOf(_)
ProductOf(vec) ==
    IF vec = <<>> THEN 1 ELSE ProductOf(SubSeq(vec, 1, Len(vec) - 1)) * vec[Len(vec)]

\* sum has been assigned (line 26); product has been assigned (line 31).
SumAssigned == nu_main \in {"L27", "L31", "L31_loop", "L32", "L35"}
ProductAssigned == nu_main \in {"L32", "L35"}

\* C14: std::accumulate with initial value 0 returns the sum of the elements of the
\* vector, for every vector: 0 for the empty one and 15 for {1,2,3,4,5}; with initial
\* value 1 and std::multiplies it returns the product, 120 for {1,2,3,4,5}.
C14_AccumulateSums ==
    /\ SumAssigned
          => /\ sum = SumOf(myVec)
             /\ myVec = <<>> => sum = 0
             /\ myVec = DemoAccVec => sum = 15
    /\ ProductAssigned
          => /\ product = ProductOf(myVec)
             /\ myVec = DemoAccVec => product = 120

\* The program's vector has been summed and multiplied, and both lines are written.
C14_Witness ==
    /\ nu_main = "L35"
    /\ myVec = DemoAccVec
    /\ sum = 15
    /\ product = 120
    /\ nu_cout[Len(nu_cout)][2] = 120


----------------------------------------------------------------------------
(* Claims about iomanip.cpp *)

\* n fill characters.
Fill(n) == [k \in 1..n |-> cout_fill]

\* C15: for text.length() < width the output of centerText(text, width) is
\* left_padding fill characters, text, and padding - left_padding fill characters,
\* with padding = width - text.length() and left_padding = padding / 2: exactly width
\* characters, the right padding 0 or 1 more than the left. For text.length() >= width,
\* width <= 0 included, the output is text itself, neither padded nor cut.
C15_CenterText ==
    ct_pc = "L57"
       => IF Len(text) < width
          THEN LET pad == width - Len(text)
                   left == pad \div 2
               IN  /\ padding = pad
                   /\ left_padding = left
                   /\ ct_cout = Fill(left) \o text \o Fill(pad - left)
                   /\ Len(ct_cout) = width
                   /\ (pad - left) - left \in {0, 1}
          ELSE ct_cout = text

\* A call returned with an odd padding: one more fill character on the right.
C15_Witness ==
    /\ ct_pc = "L57"
    /\ width - Len(text) = 3
    /\ Len(text) = 2
    /\ cout_fill = "*"
    /\ ct_cout = <<"*">> \o text \o <<"*", "*">>


----------------------------------------------------------------------------
(* Claims about fstream.cpp *)

\* How many lines with the label were written to std::cout.
FsPrintedCount(label) ==
    Cardinality({ k \in 1..Len(fs_cout) : fs_cout[k][1] = label })

\* main is past the call of example_ifstream (line 229).
PastIfstream ==
    fs_main \notin {"start", "L41", "L42", "L43", "L47", "L49", "L22", "L23", "L25",
                    "L28", "L30"}

CouldNotOpenInput == <<"Could not open input.txt", "">>

\* C16: example_ifstream reads lines from input.txt only when is_open() is true; when
\* input.txt cannot be opened it writes 'Could not open input.txt' to std::cerr, reads
\* nothing and returns, and every later example of main still runs, up to return 0.
C16_IfstreamChecksIsOpen ==
    /\ fs_main \in {"L25", "L28"}
          => /\ stream.is_open
             /\ stream.file = "input.txt"
             /\ start_dir["input.txt"].exists
    /\ fs_main = "L30" => ~stream.is_open /\ ~start_dir["input.txt"].exists
    /\ ~PastIfstream => fs_cerr = <<>>
    /\ PastIfstream
          => IF start_dir["input.txt"].exists
             THEN /\ FsPrintedCount("Read line") = Len(start_dir["input.txt"].data)
                  /\ fs_cerr = <<>>
             ELSE /\ FsPrintedCount("Read line") = 0
                  /\ fs_cerr = <<CouldNotOpenInput>>
    /\ fs_main # "returned" => ENABLED FsNext
    /\ fs_main = "returned"
          => /\ \A label \in {"Recovered number", "Modified line", "EOF, Good, Bad, Fail",
                               "Read numbers"} : FsPrintedCount(label) = 1
             /\ \A label \in {"fstream read", "Character read", "Line"} :
                   FsPrintedCount(label) = 2
             /\ ScratchFiles \subseteq fs_closed

\* input.txt was missing, the message went to std::cerr and main returned after the
\* later examples.
C16_Witness ==
    /\ fs_main = "returned"
    /\ ~start_dir["input.txt"].exists
    /\ fs_cerr = <<CouldNotOpenInput>>
    /\ FsPrintedCount("Read numbers") = 1


\* The stream of the running example is open and can read.
OpenForReading == stream.is_open /\ stream.mode \in {"in", "trunc", "inout"}

\* The program was started in an empty directory.
EmptyStart == fs_main # "start" /\ \A f \in FileNames : ~start_dir[f].exists

\* Nothing creates or writes input.txt; started in an empty directory,
\* example_ifstream takes its 'Could not open' branch and
\* example_open_close_isopen prints nothing.
InputNeverWritten ==
    /\ fs_main # "start" => files["input.txt"] = start_dir["input.txt"]
    /\ "input.txt" \notin fs_closed
    /\ EmptyStart
          => /\ fs_main \notin {"L25", "L28", "L81", "L82", "L83"}
             /\ PastIfstream => fs_cerr = <<CouldNotOpenInput>>
             /\ FsPrintedCount("Read line") = 0
             /\ FsPrintedCount("File opened successfully!") = 0
             /\ FsPrintedCount("File closed.") = 0

\* example_state reads lines.txt as example_getline wrote and closed it.
StateReadsAfterGetline ==
    fs_main \in {"L181", "L184", "L188"}
       => /\ "lines.txt" \in fs_closed
          /\ stream.file = "lines.txt"
          /\ files["lines.txt"].data = <<"First line", "Second line">>

\* C17 as stated: every scratch file open for reading (data.txt, binary.dat,
\* chars.txt, lines.txt, seek.txt, numbers.txt) was written and closed by an earlier
\* step of the run, example_state reads lines.txt after example_getline wrote it, and
\* input.txt is never created or written, so that from an empty directory
\* example_ifstream takes 'Could not open' and example_open_close_isopen prints
\* nothing.
C17_ReadAfterWrittenAndClosed ==
    /\ (OpenForReading /\ stream.file # "input.txt") => stream.file \in fs_closed
    /\ StateReadsAfterGetline
    /\ InputNeverWritten

\* C17, amended: every scratch file open for reading holds only what this run wrote.
\* binary.dat, chars.txt, lines.txt, seek.txt and numbers.txt were written and closed
\* by an earlier step; data.txt is emptied by the very fstream that writes it and
\* reads it back, and is closed only after the read. The rest as stated.
C17_ReadAfterWritten ==
    /\ (OpenForReading /\ stream.file \notin {"input.txt", "data.txt"})
          => stream.file \in fs_closed
    /\ (OpenForReading /\ stream.file = "data.txt")
          => /\ stream.mode = "trunc"
             /\ "data.txt" \notin fs_closed
             /\ fs_main \in {"L63", "L65", "L68"}
                   => files["data.txt"].data = <<"Line 1", "Line 2">>
    /\ (OpenForReading /\ stream.file # "input.txt")
          => \A k \in 1..Len(files[stream.file].data) :
                files[stream.file].data[k] # "stale"
    /\ \A k \in 1..Len(fs_cout) :
          /\ fs_cout[k][1] = "fstream read" => fs_cout[k][2] \in {"Line 1", "Line 2"}
          /\ fs_cout[k][1] = "Line" => fs_cout[k][2] \in {"First line", "Second line"}
          /\ fs_cout[k][1] = "Recovered number" => fs_cout[k][2] = <<"12345">>
          /\ fs_cout[k][1] = "Read numbers" => fs_cout[k][2] = <<"42", "3.14">>
          /\ fs_cout[k][1] = "Modified line"
                => fs_cout[k][2] = <<"a", "b", "c", "d", "Z", "f">>
    /\ StateReadsAfterGetline
    /\ InputNeverWritten

\* Started in an empty directory, main has returned: data.txt was read back through
\* the stream that wrote it, and the message about input.txt went to std::cerr.
C17_Witness ==
    /\ fs_main = "returned"
    /\ EmptyStart
    /\ fs_cerr = <<CouldNotOpenInput>>
    /\ FsPrintedCount("fstream read") = 2
    /\ FsPrintedCount("File opened successfully!") = 0

====
